---- MODULE Spec2Model ----
(***************************************************************************)
(* Verification model of the bTorrent peer-wire engine (package btorrent).  *)
(*                                                                          *)
(* Part 1: the peer session: btorrent/peer.py (class Peer), the message     *)
(* dispatcher TorrentManager._handle_message of btorrent/torrent_manager.py *)
(* and the blocking helper PeerWireProtocol of btorrent/transport/peer.py.  *)
(* Part 2: the wire codec (Message.to_bytes / from_buf / from_bytes) and    *)
(* the stream decoder Peer.get_message, at the level of single bytes.       *)
(*                                                                          *)
(* Python objects are records; a method is an operator from the object's    *)
(* record (and the outcome the environment chooses for each socket call)    *)
(* to a result record holding the new object, what was written to the       *)
(* socket, the return value and the exception that left the method.         *)
(***************************************************************************)
EXTENDS Integers, Sequences, FiniteSets, TLC

VARIABLES
    peer,         \* the Peer object (btorrent/peer.py)
    sent,         \* ghost: once-only message types written to the current socket
    pwp,          \* a PeerWireProtocol object (btorrent/transport/peer.py)
    last,         \* ghost: the last operation, its input and its outcome
    read_buffer,  \* Peer.read_buffer, an io.BytesIO: [data, pos]
    stream,       \* ghost: bytes of the peer's encoded messages not yet received
    origin,       \* ghost: the messages whose encoding was put on the stream
    yielded,      \* ghost: every message Peer.get_message has yielded so far
    feed,         \* ghost: how the stream arrived: "none", "bytewise", "mixed"
    torrent,      \* the Torrent object (btorrent/torrent.py): tiers and interval
    ann,          \* ghost: the last announce, what each tracker did, its outcome
    udp,          \* UDPConnection._send_request in progress (transport/tracker.py)
    con,          \* UDPConnection.connect in progress: main thread, fan-out, pipe
    tr,           \* UDPHandler.udp_open in progress and the clock of its session
    mgr           \* the TorrentManager thread (btorrent/torrent_manager.py)

vars == <<peer, sent, pwp, last, read_buffer, stream, origin, yielded, feed,
          torrent, ann, udp, con, tr, mgr>>

(***************************************************************************)
(* Bounds of the model.                                                     *)
(***************************************************************************)
\* number of pieces of the torrent (piece indices 0 .. NumPieces-1)
NumPieces == 2
\* number of messages the remote peer puts on the stream
MaxMsgs == 2
\* largest number of bytes one recv returns
MaxChunk == 2
\* largest length of a bit map or block carried by a message of the codec
MaxData == 2
\* number of trackers of the first tier of the announce list
MaxTier == 3
\* number of addresses the tracker's host name resolves to
NumAddrs == 2
\* number of peers a torrent gets to know (peers 1 .. MaxPeers)
MaxPeers == 2
\* largest re-announce interval a tracker asks for, in seconds
MaxInterval == 2
\* largest number of items of a bencoded list or dictionary
MaxItems == 2
\* largest number of whole piece hashes in the pieces string of an info dict
MaxHashes == 2
\* largest file length and piece length of an info dict
MaxSize == 3

(***************************************************************************)
(* Values.                                                                  *)
(***************************************************************************)
None == "None"

\* b'' and the 20-byte strings used as peer ids and info hashes
HASH_LEN == 20
Bytes20(k) == [i \in 1..HASH_LEN |-> k]
NoBytes == <<>>

OurInfoHash == Bytes20(7)
OtherInfoHash == Bytes20(9)
ClientPeerId == Bytes20(3)
PeerIdA == Bytes20(1)
PeerIdB == Bytes20(2)

\* b'BitTorrent protocol'
PROTOCOL_NAME_v10 ==
    <<66, 105, 116, 84, 111, 114, 114, 101, 110, 116, 32,
      112, 114, 111, 116, 111, 99, 111, 108>>

(***************************************************************************)
(* Messages (btorrent/transport/peer.py).  Message.__init__ stores the      *)
(* length prefix and the payload tuple; the integer members of the payload  *)
(* are kept in `ints`, its byte-string member in `data`, and the two        *)
(* 20-byte members of a Handshake in `info_hash` and `peer_id`.             *)
(***************************************************************************)
Msg(t, lp, ints, data, ih, pid) ==
    [type |-> t, length_prefix |-> lp, ints |-> ints, data |-> data,
     info_hash |-> ih, peer_id |-> pid]

KeepAlive == Msg("KeepAlive", 0, <<>>, NoBytes, NoBytes, NoBytes)
Choke == Msg("Choke", 1, <<>>, NoBytes, NoBytes, NoBytes)
UnChoke == Msg("UnChoke", 1, <<>>, NoBytes, NoBytes, NoBytes)
Interested == Msg("Interested", 1, <<>>, NoBytes, NoBytes, NoBytes)
NotInterested == Msg("NotInterested", 1, <<>>, NoBytes, NoBytes, NoBytes)
Have(piece_index) == Msg("Have", 5, <<piece_index>>, NoBytes, NoBytes, NoBytes)
Bitfield(bitfield) ==
    Msg("Bitfield", 1 + Len(bitfield), <<>>, bitfield, NoBytes, NoBytes)
Request(index, begin, length) ==
    Msg("Request", 13, <<index, begin, length>>, NoBytes, NoBytes, NoBytes)
Piece(index, begin, block) ==
    Msg("Piece", 9 + Len(block), <<index, begin>>, block, NoBytes, NoBytes)
Cancel(index, begin, length) ==
    Msg("Cancel", 13, <<index, begin, length>>, NoBytes, NoBytes, NoBytes)
Port(listen_port) == Msg("Port", 3, <<listen_port>>, NoBytes, NoBytes, NoBytes)
Handshake(reserved, info_hash, peer_id) ==
    Msg("Handshake", Len(PROTOCOL_NAME_v10), <<reserved>>, PROTOCOL_NAME_v10,
        info_hash, peer_id)

NoMsg == Msg("-", 0, <<>>, NoBytes, NoBytes, NoBytes)

\* Torrent.bitfield.tobytes(): no piece held, ceil(NumPieces / 8) zero bytes
TorrentBitfieldBytes == [i \in 1..((NumPieces + 7) \div 8) |-> 0]

(***************************************************************************)
(* Encoding: struct.pack with network byte order, Message.to_bytes and      *)
(* Handshake.to_bytes.                                                      *)
(***************************************************************************)
\* struct.pack('!B' / '!H' / '!I' / '!Q', n)
PackB(n) == <<n % 256>>
PackH(n) == <<(n \div 256) % 256, n % 256>>
PackI(n) == PackH((n \div 65536) % 65536) \o PackH(n % 65536)
PackQ(n) == PackI((n \div 65536) \div 65536) \o PackI(n)

\* struct.pack('<n>s', b): b cut or zero-padded to n bytes
PackS(n, b) == [i \in 1..n |-> IF i <= Len(b) THEN b[i] ELSE 0]

RECURSIVE PackInts(_)
PackInts(ints) ==
    IF ints = <<>> THEN <<>> ELSE PackI(Head(ints)) \o PackInts(Tail(ints))

\* Message.MESSAGE_ID of each subclass; -1 stands for None
MESSAGE_ID(type) ==
    CASE type = "Choke" -> 0
      [] type = "UnChoke" -> 1
      [] type = "Interested" -> 2
      [] type = "NotInterested" -> 3
      [] type = "Have" -> 4
      [] type = "Bitfield" -> 5
      [] type = "Request" -> 6
      [] type = "Piece" -> 7
      [] type = "Cancel" -> 8
      [] type = "Port" -> 9
      [] OTHER -> -1

\* Message.to_bytes, and Handshake.to_bytes for a Handshake
to_bytes(msg) ==
    IF msg.type = "Handshake"
    THEN PackB(msg.length_prefix) \o PackS(Len(msg.data), msg.data)
         \o PackQ(msg.ints[1]) \o PackS(HASH_LEN, msg.info_hash)
         \o PackS(HASH_LEN, msg.peer_id)
    ELSE PackI(msg.length_prefix)
         \o (IF MESSAGE_ID(msg.type) # -1 THEN PackB(MESSAGE_ID(msg.type)) ELSE <<>>)
         \o (IF msg.type = "Port" THEN PackH(msg.ints[1]) ELSE PackInts(msg.ints))
         \o PackS(Len(msg.data), msg.data)

(***************************************************************************)
(* Decoding: struct.unpack_from, Message.from_bytes and the _from_bytes of  *)
(* each class.  A decoder returns [msg, exc]: the message built, or the     *)
(* exception raised (struct.error when the buffer is too short for the      *)
(* format).                                                                 *)
(***************************************************************************)
\* int.from_bytes(b, 'big')
RECURSIVE IntFromBytes(_)
IntFromBytes(b) ==
    IF b = <<>> THEN 0
    ELSE 256 * IntFromBytes(SubSeq(b, 1, Len(b) - 1)) + b[Len(b)]

\* struct.unpack_from needs `size` bytes at `offset`
Avail(buf, offset, size) == Len(buf) >= offset + size
UnpackAt(buf, offset, size) == IntFromBytes(SubSeq(buf, offset + 1, offset + size))

Built(msg) == [msg |-> msg, exc |-> None]
Raised(exc) == [msg |-> NoMsg, exc |-> exc]

\* Message._from_bytes as inherited by the framed classes
message_from_bytes(type, buf) ==
    IF ~Avail(buf, 0, 4) THEN Raised("struct.error")
    ELSE
    LET length == UnpackAt(buf, 0, 4) IN
    CASE type = "KeepAlive" -> Built(KeepAlive)
      [] type = "Choke" -> Built(Choke)
      [] type = "UnChoke" -> Built(UnChoke)
      [] type = "Interested" -> Built(Interested)
      [] type = "NotInterested" -> Built(NotInterested)
      [] type = "Have" ->
            IF Avail(buf, 5, 4) THEN Built(Have(UnpackAt(buf, 5, 4)))
            ELSE Raised("struct.error")
      [] type = "Bitfield" ->
            IF length - 1 >= 0 /\ Avail(buf, 5, length - 1)
            THEN Built(Bitfield(SubSeq(buf, 6, 5 + length - 1)))
            ELSE Raised("struct.error")
      [] type \in {"Request", "Cancel"} ->
            IF Avail(buf, 5, 12)
            THEN Built(Msg(type, 13,
                           <<UnpackAt(buf, 5, 4), UnpackAt(buf, 9, 4),
                             UnpackAt(buf, 13, 4)>>,
                           NoBytes, NoBytes, NoBytes))
            ELSE Raised("struct.error")
      [] type = "Piece" ->
            IF length - 9 >= 0 /\ Avail(buf, 5, 8 + length - 9)
            THEN Built(Piece(UnpackAt(buf, 5, 4), UnpackAt(buf, 9, 4),
                             SubSeq(buf, 14, 13 + length - 9)))
            ELSE Raised("struct.error")
      [] type = "Port" ->
            IF Avail(buf, 5, 2) THEN Built(Port(UnpackAt(buf, 5, 2)))
            ELSE Raised("struct.error")

\* Handshake._from_bytes: PROTOCOL_VERS knows the name length 19 only
handshake_from_bytes(buf) ==
    IF buf[1] # Len(PROTOCOL_NAME_v10) THEN Raised("WrongMessageError")
    ELSE IF ~Avail(buf, 1 + buf[1], 8 + 2 * HASH_LEN) THEN Raised("struct.error")
    ELSE Built(Handshake(UnpackAt(buf, 1 + buf[1], 8),
                         SubSeq(buf, 10 + buf[1], 9 + buf[1] + HASH_LEN),
                         SubSeq(buf, 10 + buf[1] + HASH_LEN,
                                9 + buf[1] + 2 * HASH_LEN)))

\* the msg_ids table with the classes of ids 0 and 1 exchanged
MsgIdType_swapped(msg_id) ==
    CASE msg_id = 0 -> "UnChoke"
      [] msg_id = 1 -> "Choke"
      [] msg_id = 2 -> "Interested"
      [] msg_id = 3 -> "NotInterested"
      [] msg_id = 4 -> "Have"
      [] msg_id = 5 -> "Bitfield"
      [] msg_id = 6 -> "Request"
      [] msg_id = 7 -> "Piece"
      [] msg_id = 8 -> "Cancel"
      [] msg_id = 9 -> "Port"
      [] OTHER -> "Handshake"

\* the msg_ids table of Message.from_bytes
MsgIdType(msg_id) ==
    CASE msg_id = 0 -> "Choke"
      [] msg_id = 1 -> "UnChoke"
      [] msg_id = 2 -> "Interested"
      [] msg_id = 3 -> "NotInterested"
      [] msg_id = 4 -> "Have"
      [] msg_id = 5 -> "Bitfield"
      [] msg_id = 6 -> "Request"
      [] msg_id = 7 -> "Piece"
      [] msg_id = 8 -> "Cancel"
      [] msg_id = 9 -> "Port"
      [] OTHER -> "Handshake"

\* Message.from_bytes
from_bytes(buf) ==
    IF buf = <<>> THEN Raised("WrongMessageError")
    ELSE IF ~Avail(buf, 0, 5) THEN message_from_bytes("KeepAlive", buf)
    ELSE IF MsgIdType(buf[5]) = "Handshake" THEN handshake_from_bytes(buf)
    ELSE message_from_bytes(MsgIdType(buf[5]), buf)

\* io.BytesIO.read(n) at position pos: the bytes read
Read(data, pos, n) ==
    SubSeq(data, pos + 1, IF pos + n <= Len(data) THEN pos + n ELSE Len(data))

\* Message.from_buf on the BytesIO (data, pos): [msg, exc, pos], msg = NoMsg
\* with exc = None standing for the None it returns on a short buffer
from_buf(data, pos, buf_size) ==
    LET head == Read(data, pos, 4)
        len_prefix == IntFromBytes(head)
        total_len == 4 + len_prefix
        back == pos + Len(head) - 4
        body == Read(data, back, total_len)
        r == from_bytes(body)
    IN  IF buf_size < total_len
        THEN [msg |-> NoMsg, exc |-> None, pos |-> pos + Len(head)]
        ELSE [msg |-> r.msg, exc |-> r.exc, pos |-> back + Len(body)]

(***************************************************************************)
(* class Peer (btorrent/peer.py).                                           *)
(***************************************************************************)
\* bitstring.BitArray(): a bit array of length 0
EmptyBitArray == [kind |-> "BitArray", bits |-> <<>>]
\* a bytes object, as carried by a received Bitfield message
BytesObj(b) == [kind |-> "bytes", bits |-> b]

\* Peer.__init__: peer_id is the id announced by the tracker, b'' by default;
\* reserved = bytearray(8) is written 0, the integer Handshake.reserved
\* replaces it with.
NewPeer(peer_id) ==
    [peer_id |-> peer_id, reserved |-> 0, bitfield |-> EmptyBitArray,
     handshaked |-> FALSE, bitfielded |-> FALSE, destroyed |-> FALSE,
     am_choking |-> TRUE, am_interested |-> FALSE,
     peer_choking |-> TRUE, peer_interested |-> FALSE,
     sock |-> None]

\* what a method did: the peer afterwards, the messages written to the socket
\* (with the force flag and the handshaked flag at the time of the write), the
\* returned value (a byte count; 0 also stands for None, the two being told
\* apart by no caller), the exception that left the method, whether it opened
\* a socket, and the socket call that failed inside it ("connect", "send",
\* "recv" or None)
Res(p, wrote, ret, exc, newsock, ioerr) ==
    [peer |-> p, wrote |-> wrote, ret |-> ret, exc |-> exc, newsock |-> newsock,
     ioerr |-> ioerr]

Written(msg, force, handshaked) ==
    [type |-> msg.type, force |-> force, handshaked |-> handshaked]

\* Peer.fileno
fileno(p) == IF p.sock # None THEN 3 ELSE -1

\* connect that returns early on handshaked only
connect_destroyed_too(p, conn_ok) ==
    IF p.handshaked THEN Res(p, <<>>, 0, None, FALSE, None)
    ELSE IF ~conn_ok
    THEN Res([p EXCEPT !.destroyed = TRUE], <<>>, 0, None, FALSE, "connect")
    ELSE Res([p EXCEPT !.sock = "open"], <<>>, 0, None, TRUE, None)

\* Peer.connect; conn_ok: sk.create_connection succeeds
connect(p, conn_ok) ==
    IF p.handshaked \/ p.destroyed THEN Res(p, <<>>, 0, None, FALSE, None)
    ELSE IF ~conn_ok
    THEN Res([p EXCEPT !.destroyed = TRUE], <<>>, 0, None, FALSE, "connect")
    ELSE Res([p EXCEPT !.sock = "open"], <<>>, 0, None, TRUE, None)

\* disconnect that leaves a destroyed peer alone
disconnect_unless_destroyed(p) ==
    IF p.sock # None /\ ~p.destroyed
    THEN [p EXCEPT !.sock = None, !.handshaked = FALSE]
    ELSE p

\* Peer.disconnect
disconnect(p) ==
    IF p.sock # None
    THEN [p EXCEPT !.sock = None, !.handshaked = FALSE]
    ELSE p

\* send_message without its handshake gate: only a destroyed peer is refused
send_message_ungated(p, msg, force, conn_ok, send_ok) ==
    LET c == IF p.sock = None THEN connect(p, conn_ok)
             ELSE Res(p, <<>>, 0, None, FALSE, None)
        p1 == c.peer
    IN  IF p1.destroyed
        THEN Res(p1, <<>>, 0, None, c.newsock, c.ioerr)
        ELSE IF p1.sock = None \/ ~send_ok
        THEN Res([p1 EXCEPT !.destroyed = TRUE], <<>>, 0, None, c.newsock, "send")
        ELSE Res(p1, <<Written(msg, force, p1.handshaked)>>,
                 Len(to_bytes(msg)), None, c.newsock, None)

\* Peer.send_message; conn_ok: the connect it may attempt succeeds, send_ok:
\* sock.send succeeds (it then takes the whole message).  With sock still None
\* at the send (connect returned early on handshaked), sock.send raises
\* AttributeError, which the except clause catches like a socket error.
send_message(p, msg, force, conn_ok, send_ok) ==
    LET c == IF p.sock = None THEN connect(p, conn_ok)
             ELSE Res(p, <<>>, 0, None, FALSE, None)
        p1 == c.peer
    IN  IF p1.destroyed \/ ~(force \/ p1.handshaked)
        THEN Res(p1, <<>>, 0, None, c.newsock, c.ioerr)
        ELSE IF p1.sock = None \/ ~send_ok
        THEN Res([p1 EXCEPT !.destroyed = TRUE], <<>>, 0, None, c.newsock, "send")
        ELSE Res(p1, <<Written(msg, force, p1.handshaked)>>,
                 Len(to_bytes(msg)), None, c.newsock, None)

\* Peer.do_keep_alive
do_keep_alive(p, conn_ok, send_ok) ==
    send_message(p, KeepAlive, FALSE, conn_ok, send_ok)

\* Peer.do_handshake
do_handshake(p, info_hash, client_peer_id, reserved, force, conn_ok, send_ok) ==
    send_message(p, Handshake(reserved, info_hash, client_peer_id), force,
                 conn_ok, send_ok)

\* Peer.do_bitfield; bitfield: the bytes of the torrent's own bit array
do_bitfield(p, bitfield, conn_ok, send_ok) ==
    IF ~p.bitfielded
    THEN send_message(p, Bitfield(bitfield), FALSE, conn_ok, send_ok)
    ELSE Res(p, <<>>, 0, None, FALSE, None)

\* Peer.do_interested
do_interested(p, conn_ok, send_ok) ==
    IF p.peer_choking /\ ~p.am_interested
    THEN LET r == send_message(p, Interested, FALSE, conn_ok, send_ok)
         IN  IF r.ret # 0
             THEN [r EXCEPT !.peer = [r.peer EXCEPT !.am_interested = TRUE]]
             ELSE r
    ELSE Res(p, <<>>, 0, None, FALSE, None)

\* Peer.do_unchoke
do_unchoke(p, conn_ok, send_ok) ==
    IF p.am_choking
    THEN send_message(p, UnChoke, FALSE, conn_ok, send_ok)
    ELSE Res(p, <<>>, 0, None, FALSE, None)

\* io.BytesIO(): no bytes, position 0
EmptyBuffer == [data |-> <<>>, pos |-> 0]

\* io.BytesIO.write(x) at the position of the buffer
Write(buf, x) ==
    [data |-> SubSeq(buf.data, 1, buf.pos) \o x
              \o SubSeq(buf.data, buf.pos + Len(x) + 1, Len(buf.data)),
     pos |-> buf.pos + Len(x)]

\* Peer._recv: the bytes the socket had are written to the read buffer; the
\* loop ends on b'', on EAGAIN and on any other socket error alike
recv(buf, x) == Write(buf, x)

\* the handshaked flag where Message.from_buf takes its buf_size: bool is int
BoolInt(b) == IF b THEN 1 ELSE 0

\* the end of Peer.get_message: the unread rest becomes the new buffer
RestBuffer(data, pos) ==
    [data |-> SubSeq(data, pos + 1, Len(data)), pos |-> Len(data) - pos]

\* the while loop of Peer.get_message on the bytes `data` read from position
\* pos, est_sz bytes estimated left, `out` the messages yielded so far to a
\* consumer that leaves the peer alone: [peer, buffer, out]
RECURSIVE get_message_loop(_, _, _, _, _)
get_message_loop(p, data, pos, est_sz, out) ==
    IF est_sz >= 4 /\ ~p.destroyed
    THEN LET r == from_buf(data, pos, BoolInt(p.handshaked)) IN
         CASE r.exc = "struct.error" ->
                [peer |-> p, buffer |-> RestBuffer(data, Len(data) - est_sz),
                 out |-> out]
           [] r.exc = "HandshakeError" ->
                [peer |-> disconnect(p),
                 buffer |-> [data |-> data, pos |-> r.pos], out |-> out]
           [] r.exc = "WrongMessageError" ->
                get_message_loop(p, data, r.pos, Len(data) - r.pos, out)
           [] r.exc = None /\ r.msg = NoMsg ->
                [peer |-> p, buffer |-> RestBuffer(data, r.pos), out |-> out]
           [] OTHER ->
                get_message_loop(p, data, r.pos, Len(data) - r.pos,
                                 Append(out, r.msg))
    ELSE [peer |-> p, buffer |-> RestBuffer(data, pos), out |-> out]

\* Peer.get_message run to its end; x: the bytes _recv found on the socket
get_message(p, buf, x) ==
    LET b == recv(buf, x)
    IN  get_message_loop(p, b.data, 0, b.pos, <<>>)

(***************************************************************************)
(* TorrentManager._handle_message (btorrent/torrent_manager.py).            *)
(***************************************************************************)
\* peer.bitfield[index] = 1: bitstring.BitArray.__setitem__ raises IndexError
\* for an index outside the array (a negative index counts from the end), and
\* a bytes object supports no item assignment (TypeError)
setitem_exc(bf, index) ==
    IF bf.kind = "bytes" THEN "TypeError"
    ELSE IF index >= Len(bf.bits) \/ index < -Len(bf.bits) THEN "IndexError"
    ELSE None

setitem(bf, index) ==
    IF setitem_exc(bf, index) # None THEN bf
    ELSE [bf EXCEPT !.bits[IF index >= 0 THEN index + 1
                           ELSE Len(bf.bits) + index + 1] = 1]

\* the Handshake branch
handle_handshake(p, msg, torrent_bitfield, conn_ok, send_ok) ==
    IF p.peer_id # NoBytes /\ msg.peer_id # NoBytes /\ p.peer_id # msg.peer_id
    THEN Res(disconnect(p), <<>>, 0, None, FALSE, None)
    ELSE do_bitfield([p EXCEPT !.peer_id = msg.peer_id,
                               !.reserved = msg.ints[1],
                               !.handshaked = TRUE],
                     torrent_bitfield, conn_ok, send_ok)

\* the Interested branch
handle_interested(p, conn_ok, send_ok) ==
    do_unchoke([p EXCEPT !.peer_interested = TRUE], conn_ok, send_ok)

\* the Have branch
handle_have(p, msg) ==
    Res([p EXCEPT !.bitfield = setitem(p.bitfield, msg.ints[1])], <<>>, 0,
        setitem_exc(p.bitfield, msg.ints[1]), FALSE, None)

\* the Bitfield branch
handle_bitfield(p, msg) ==
    IF ~p.bitfielded
    THEN Res([p EXCEPT !.bitfield = BytesObj(msg.data), !.bitfielded = TRUE],
             <<>>, 0, None, FALSE, None)
    ELSE Res(p, <<>>, 0, None, FALSE, None)

handle_message(p, msg, torrent_bitfield, conn_ok, send_ok) ==
    CASE msg.type = "KeepAlive" -> do_keep_alive(p, conn_ok, send_ok)
      [] msg.type = "Handshake" ->
            handle_handshake(p, msg, torrent_bitfield, conn_ok, send_ok)
      [] msg.type = "Choke" ->
            Res([p EXCEPT !.peer_choking = TRUE], <<>>, 0, None, FALSE, None)
      [] msg.type = "UnChoke" ->
            Res([p EXCEPT !.peer_choking = FALSE], <<>>, 0, None, FALSE, None)
      [] msg.type = "Interested" -> handle_interested(p, conn_ok, send_ok)
      [] msg.type = "NotInterested" ->
            Res([p EXCEPT !.peer_interested = FALSE], <<>>, 0, None, FALSE, None)
      [] msg.type = "Have" -> handle_have(p, msg)
      [] msg.type = "Bitfield" -> handle_bitfield(p, msg)
      [] OTHER -> Res(p, <<>>, 0, None, FALSE, None)

(***************************************************************************)
(* class PeerWireProtocol (btorrent/transport/peer.py): the blocking        *)
(* request/response helper.  The object is [peer_id, sock]; a call yields   *)
(* the object afterwards, the exception raised and the returned pair.       *)
(***************************************************************************)
PwpRes(w, exc, ret_peer_id, ret_reserved) ==
    [pwp |-> w, exc |-> exc, peer_id |-> ret_peer_id, reserved |-> ret_reserved]

\* PeerWireProtocol.disconnect
pwp_disconnect(w) == [w EXCEPT !.sock = None]

\* PeerWireProtocol.connect; a failed connect disconnects and re-raises
pwp_connect(w, conn_ok) ==
    IF conn_ok THEN PwpRes([w EXCEPT !.sock = "open"], None, NoBytes, 0)
    ELSE PwpRes(pwp_disconnect(w), "socket.error", NoBytes, 0)

\* PeerWireProtocol._send_message.  resp: the message Message.from_bytes
\* builds from the peer's answer; env: the call that fails, if any: the
\* connect, sock.send (not caught: the socket stays as it is), sock.recv, or
\* from_bytes raising WrongMessageError ("parse_fails").
pwp_send_message(w, resp, env) ==
    LET c == IF w.sock = None THEN pwp_connect(w, env # "connect_fails")
             ELSE PwpRes(w, None, NoBytes, 0)
        w1 == c.pwp
    IN  IF c.exc # None THEN c
        ELSE IF env = "send_fails" THEN PwpRes(w1, "socket.error", NoBytes, 0)
        ELSE IF env = "recv_fails"
        THEN PwpRes(pwp_disconnect(w1), "socket.error", NoBytes, 0)
        ELSE IF env = "parse_fails"
        THEN PwpRes(pwp_disconnect(w1), "ConnectionAbortedError", NoBytes, 0)
        ELSE PwpRes(w1, None, NoBytes, 0)

\* PeerWireProtocol.handshake: the pair (peer_id, reserved) of the response
pwp_handshake(w, resp, env) ==
    LET r == pwp_send_message(w, resp, env)
        w1 == r.pwp
    IN  IF r.exc # None THEN r
        ELSE IF resp.type # "Handshake"
        THEN PwpRes(w1, "AttributeError", NoBytes, 0)
        ELSE IF w1.peer_id # NoBytes /\ resp.peer_id # NoBytes
                /\ w1.peer_id = resp.peer_id
        THEN PwpRes(pwp_disconnect(w1), "HandshakeError", NoBytes, 0)
        ELSE PwpRes(w1, None, resp.peer_id, resp.ints[1])

\* PeerWireProtocol.bitfield: the response to our Bitfield
pwp_bitfield(w, resp, env) == pwp_send_message(w, resp, env)

(***************************************************************************)
(* The peer session as a state machine: one action per public operation of  *)
(* Peer and one for the dispatcher.                                         *)
(***************************************************************************)
\* the ids a tracker may have announced for the peer (b'': none)
ExpectedPeerIds == {NoBytes, PeerIdA}

\* bit maps a peer may send: ceil(NumPieces / 8) bytes
BitfieldValues == {[i \in 1..((NumPieces + 7) \div 8) |-> v] : v \in {128, 192}}

\* messages handed to send_message by a caller
SendMsgs == {KeepAlive, Handshake(0, OurInfoHash, ClientPeerId)}

\* messages handed to the dispatcher
HandshakeMsgs ==
    {Handshake(1, ih, pid) : ih \in {OurInfoHash, OtherInfoHash},
                             pid \in {NoBytes, PeerIdA, PeerIdB}}

HandleMsgs ==
    {KeepAlive, Choke, UnChoke, Interested, NotInterested,
     Request(0, 0, 1)}
    \cup {Have(i) : i \in 0..(NumPieces - 1)}
    \cup {Bitfield(b) : b \in BitfieldValues}
    \cup HandshakeMsgs

\* what the network does to the socket calls of one operation
Env == {"ok", "connect_fails", "send_fails"}
ConnOk(env) == env # "connect_fails"
SendOk(env) == env # "send_fails"
\* the dispatcher reaches a socket call only for these messages
EnvOf(msg) ==
    IF msg.type \in {"KeepAlive", "Handshake", "Interested"} THEN Env ELSE {"ok"}

\* ghost: which of the once-only message types were written to the socket in
\* use; a new socket starts afresh
OnceOnly == {"Bitfield", "UnChoke"}
Sent(old, res) ==
    (IF res.newsock THEN {} ELSE old)
    \cup ({res.wrote[i].type : i \in DOMAIN res.wrote} \cap OnceOnly)

Outcome(op, msg, force, res) ==
    [op |-> op, msg |-> msg, force |-> force,
     wrote |-> res.wrote, exc |-> res.exc, ioerr |-> res.ioerr]

NoOutcome ==
    [op |-> "init", msg |-> NoMsg, force |-> FALSE,
     wrote |-> <<>>, exc |-> None, ioerr |-> None]

\* a call on the peer that returned `res`
PeerCall(op, msg, force, res) ==
    /\ peer' = res.peer
    /\ sent' = Sent(sent, res)
    /\ last' = Outcome(op, msg, force, res)
    /\ UNCHANGED <<pwp, read_buffer, stream, origin, yielded, feed, torrent, ann, udp, con, tr, mgr>>

Connect ==
    \E env \in {"ok", "connect_fails"} :
        PeerCall("connect", NoMsg, FALSE, connect(peer, ConnOk(env)))

Disconnect ==
    PeerCall("disconnect", NoMsg, FALSE,
             Res(disconnect(peer), <<>>, 0, None, FALSE, None))

SendMessage ==
    \E msg \in SendMsgs, force \in BOOLEAN, env \in Env :
        PeerCall("send_message", msg, force,
                 send_message(peer, msg, force, ConnOk(env), SendOk(env)))

DoKeepAlive ==
    \E env \in Env :
        PeerCall("do_keep_alive", NoMsg, FALSE,
                 do_keep_alive(peer, ConnOk(env), SendOk(env)))

DoHandshake ==
    \E force \in BOOLEAN, env \in Env :
        PeerCall("do_handshake", NoMsg, force,
                 do_handshake(peer, OurInfoHash, ClientPeerId, 0, force,
                              ConnOk(env), SendOk(env)))

DoBitfield ==
    \E env \in Env :
        PeerCall("do_bitfield", NoMsg, FALSE,
                 do_bitfield(peer, TorrentBitfieldBytes, ConnOk(env), SendOk(env)))

DoInterested ==
    \E env \in Env :
        PeerCall("do_interested", NoMsg, FALSE,
                 do_interested(peer, ConnOk(env), SendOk(env)))

DoUnchoke ==
    \E env \in Env :
        PeerCall("do_unchoke", NoMsg, FALSE,
                 do_unchoke(peer, ConnOk(env), SendOk(env)))

HandleMessage ==
    \E msg \in HandleMsgs :
        \E env \in EnvOf(msg) :
            PeerCall("handle_message", msg, FALSE,
                     handle_message(peer, msg, TorrentBitfieldBytes,
                                    ConnOk(env), SendOk(env)))

\* the tracker side before any announce: Torrent.__init__ builds the announce
\* list (tier 1 of MaxTier trackers, named 1 .. MaxTier, tier 2 of one), no
\* request is under way and UDPConnection.__init__ has left sock and
\* connection_id None (0)
\* calls: the trackers trt_meth was invoked on during the call, in order;
\* before: the announce list the call started from
NoAnnounce ==
    [op |-> "init", out |-> <<>>, response |-> 0, exc |-> None, calls |-> <<>>,
     before |-> <<>>]
NoRequest ==
    [status |-> "idle", action |-> 0, i |-> 0, sent |-> 0, timeout |-> 0,
     transaction_id |-> 0, outcome |-> "none",
     resp |-> [class |-> "None", t_id |-> 0, connection_id |-> 0], exc |-> None]
NoConnect ==
    [pc |-> "idle", ths |-> {}, pipe |-> <<>>, signalled |-> FALSE,
     thread |-> <<>>, sock |-> 0, connection_id |-> 0, exc |-> None]
\* no udp_open is under way and no connection id was ever obtained: age is
\* the age in seconds of the connection id of the current UDPConnection,
\* sent_age its age when the last announce or scrape datagram left (-1: none)
NoSession ==
    [pc |-> "idle", age |-> -1, sent_age |-> -1, reuse |-> FALSE,
     connect_sent |-> FALSE]
\* TorrentManager.__init__ on a Torrent fresh from Torrent.__init__: no
\* peers, interval 0.  The clock is kept as since, the seconds from
\* torrent.last_announce_time to time.monotonic(), not told apart above
\* MaxInterval + 1; last_announce_time is 0 at first, long ago.
\* peers[id] is the Peer object of address id once id is in members
\* (torrent.peers) and buffers[id] its read_buffer.  Ghosts: op the last
\* step, event the event of the last announce attempted, timer what the
\* test of the last _announce call gave ("due", "early", "forced", "none":
\* not reached), trailing an announce attempted after the stopped one,
\* initiated the peers the driver called connect and do_handshake on.
NoManager ==
    [pc |-> "new", is_active |-> TRUE, since |-> MaxInterval + 1,
     interval |-> 0, members |-> {},
     peers |-> [id \in 1..MaxPeers |-> NewPeer(NoBytes)],
     buffers |-> [id \in 1..MaxPeers |-> EmptyBuffer],
     initiated |-> {}, op |-> "init", event |-> "", timer |-> "none",
     at |-> 0, limit |-> 0, trailing |-> FALSE, exc |-> None]
TrackerIdle ==
    /\ tr = NoSession
    /\ mgr = NoManager
    /\ torrent = [announce_list |-> <<[i \in 1..MaxTier |-> i], <<MaxTier + 1>> >>,
                  interval |-> 0]
    /\ ann = NoAnnounce
    /\ udp = NoRequest
    /\ con = NoConnect

\* the peer side left alone
PeerIdle ==
    /\ peer = NewPeer(NoBytes)
    /\ pwp = [peer_id |-> NoBytes, sock |-> None]
    /\ sent = {}
    /\ last = NoOutcome
    /\ read_buffer = EmptyBuffer
    /\ stream = <<>>
    /\ origin = <<>>
    /\ yielded = <<>>
    /\ feed = "none"

Init ==
    /\ \E pid \in ExpectedPeerIds :
        /\ peer = NewPeer(pid)
        /\ pwp = [peer_id |-> pid, sock |-> None]
    /\ sent = {}
    /\ last = NoOutcome
    /\ read_buffer = EmptyBuffer
    /\ stream = <<>>
    /\ origin = <<>>
    /\ yielded = <<>>
    /\ feed = "none"
    /\ TrackerIdle

Next ==
    \/ Connect
    \/ Disconnect
    \/ SendMessage
    \/ DoKeepAlive
    \/ DoHandshake
    \/ DoBitfield
    \/ DoInterested
    \/ DoUnchoke
    \/ HandleMessage

Spec == Init /\ [][Next]_vars

(***************************************************************************)
(* The stream decoder as a state machine: the remote peer has put the       *)
(* encoding of the messages `origin` on the connection; each step the       *)
(* socket delivers the next bytes of it and Peer.get_message is run to its  *)
(* end by a consumer that collects what it yields.                          *)
(***************************************************************************)
\* post-handshake messages the remote peer sends
WireMsgs ==
    {KeepAlive, Choke, Interested, Have(1), Bitfield(<<128>>), Port(6881)}

RECURSIVE Encode(_)
Encode(msgs) ==
    IF msgs = <<>> THEN <<>> ELSE to_bytes(Head(msgs)) \o Encode(Tail(msgs))

ConnectedPeer(handshaked) ==
    [NewPeer(NoBytes) EXCEPT !.sock = "open", !.handshaked = handshaked]

InitWire ==
    /\ \E n \in 1..MaxMsgs : \E msgs \in [1..n -> WireMsgs] :
        /\ origin = msgs
        /\ stream = Encode(msgs)
    /\ \E h \in BOOLEAN : peer = ConnectedPeer(h)
    /\ pwp = [peer_id |-> NoBytes, sock |-> None]
    /\ sent = {}
    /\ last = NoOutcome
    /\ read_buffer = EmptyBuffer
    /\ yielded = <<>>
    /\ feed = "none"
    /\ TrackerIdle

\* get_message with k bytes of the stream on the socket
Deliver(op, k, ioerr, how) ==
    LET r == get_message(peer, read_buffer, SubSeq(stream, 1, k)) IN
    /\ peer' = r.peer
    /\ read_buffer' = r.buffer
    /\ yielded' = yielded \o r.out
    /\ stream' = SubSeq(stream, k + 1, Len(stream))
    /\ feed' = IF feed \in {"none", how} THEN how ELSE "mixed"
    /\ last' = [NoOutcome EXCEPT !.op = op, !.ioerr = ioerr]
    /\ UNCHANGED <<pwp, sent, origin, torrent, ann, udp, con, tr, mgr>>

\* one byte arrives
RecvByte ==
    /\ stream # <<>>
    /\ Deliver("get_message", 1, None, "bytewise")

\* several bytes arrive at once
RecvChunk ==
    \E k \in 2..MaxChunk :
        /\ k <= Len(stream)
        /\ Deliver("get_message", k, None, "mixed")

\* sock.recv raises a socket error other than EAGAIN before any byte arrives
RecvError ==
    /\ last.ioerr # "recv"
    /\ Deliver("get_message", 0, "recv", "mixed")

NextWire ==
    \/ RecvByte
    \/ RecvChunk
    \/ RecvError

SpecWire == InitWire /\ [][NextWire]_vars

(***************************************************************************)
(* PeerWireProtocol as a state machine.                                     *)
(***************************************************************************)
PwpEnv == {"ok", "connect_fails", "send_fails", "recv_fails", "parse_fails"}

PwpCall(op, resp, env, r) ==
    /\ pwp' = r.pwp
    /\ last' = [NoOutcome EXCEPT !.op = op, !.msg = resp, !.exc = r.exc,
                                 !.ioerr = IF env = "ok" THEN None ELSE env]
    /\ UNCHANGED <<peer, sent, read_buffer, stream, origin, yielded, feed, torrent, ann, udp, con, tr, mgr>>

PwpConnect ==
    \E env \in {"ok", "connect_fails"} :
        PwpCall("pwp_connect", NoMsg, env, pwp_connect(pwp, env = "ok"))

PwpDisconnect ==
    PwpCall("pwp_disconnect", NoMsg, "ok",
            PwpRes(pwp_disconnect(pwp), None, NoBytes, 0))

PwpHandshake ==
    \E resp \in HandshakeMsgs \cup {Choke}, env \in PwpEnv :
        /\ env = "connect_fails" => pwp.sock = None
        /\ PwpCall("pwp_handshake", resp, env, pwp_handshake(pwp, resp, env))

PwpBitfield ==
    \E resp \in {KeepAlive, Choke, UnChoke} \cup {Bitfield(b) : b \in BitfieldValues},
       env \in PwpEnv :
        /\ env = "connect_fails" => pwp.sock = None
        /\ PwpCall("pwp_bitfield", resp, env, pwp_bitfield(pwp, resp, env))

NextPwp ==
    \/ PwpConnect
    \/ PwpDisconnect
    \/ PwpHandshake
    \/ PwpBitfield

SpecPwp == Init /\ [][NextPwp]_vars

(***************************************************************************)
(* The stream decoder on a stream that starts with a complete frame whose   *)
(* id is none of 0..9, followed by the encoding of `origin`.                *)
(***************************************************************************)
\* <len=0001><msg_id=20>
UnknownFrame == <<0, 0, 0, 1, 20>>

InitFrames ==
    /\ \E n \in 1..MaxMsgs : \E msgs \in [1..n -> WireMsgs] :
        /\ origin = msgs
        /\ stream = UnknownFrame \o Encode(msgs)
    /\ \E h \in BOOLEAN : peer = ConnectedPeer(h)
    /\ pwp = [peer_id |-> NoBytes, sock |-> None]
    /\ sent = {}
    /\ last = NoOutcome
    /\ read_buffer = EmptyBuffer
    /\ yielded = <<>>
    /\ feed = "none"
    /\ TrackerIdle

SpecFrames == InitFrames /\ [][NextWire]_vars

(***************************************************************************)
(* The codec on single messages: a message of any class is built with       *)
(* payload values in the range of its fields, encoded with to_bytes, and    *)
(* the bytes are decoded with Message.from_bytes.                           *)
(***************************************************************************)
\* the messages built: IntValues for the 32-bit fields, PortValues for the
\* port, DataValues for a bit map or block, ReservedValues for the 64-bit
\* reserved field (the model's integers end at 2^31 - 1), HashValues for the
\* 20-byte strings
CodecMsgs ==
    LET IntValues == {0, 1, 65794, 2147483647}
        PortValues == {0, 6881, 65535}
        ByteValues == {0, 128, 255}
        ReservedValues == {0, 1, 2147483647}
        DataValues == UNION {[1..n -> ByteValues] : n \in 0..MaxData}
        HashValues == {Bytes20(k) : k \in ByteValues}
    IN  {KeepAlive, Choke, UnChoke, Interested, NotInterested}
        \cup {Have(i) : i \in IntValues}
        \cup {Bitfield(b) : b \in DataValues}
        \cup {Request(i, b, 16384) : i, b \in IntValues}
        \cup {Cancel(i, 0, l) : i, l \in IntValues}
        \cup {Piece(i, b, d) : i \in {0, 2147483647}, b \in {0, 16384},
                               d \in DataValues}
        \cup {Port(p) : p \in PortValues}
        \cup {Handshake(r, ih, pid) : r \in ReservedValues, ih \in HashValues,
                                      pid \in HashValues}

InitCodec ==
    /\ \E m \in CodecMsgs : origin = <<m>>
    /\ peer = NewPeer(NoBytes)
    /\ pwp = [peer_id |-> NoBytes, sock |-> None]
    /\ sent = {}
    /\ last = NoOutcome
    /\ read_buffer = EmptyBuffer
    /\ stream = <<>>
    /\ yielded = <<>>
    /\ feed = "none"
    /\ TrackerIdle

\* m.to_bytes()
ToBytes ==
    /\ last.op = "init"
    /\ stream' = to_bytes(origin[1])
    /\ last' = [NoOutcome EXCEPT !.op = "to_bytes", !.msg = origin[1]]
    /\ UNCHANGED <<peer, sent, pwp, read_buffer, origin, yielded, feed, torrent, ann, udp, con, tr, mgr>>

\* Message.from_bytes on the bytes of the message
FromBytes ==
    /\ last.op = "to_bytes"
    /\ LET r == from_bytes(stream) IN
        /\ yielded' = IF r.exc = None THEN <<r.msg>> ELSE <<>>
        /\ last' = [last EXCEPT !.op = "from_bytes", !.exc = r.exc]
    /\ UNCHANGED <<peer, sent, pwp, read_buffer, stream, origin, feed, torrent, ann, udp, con, tr, mgr>>

NextCodec ==
    \/ ToBytes
    \/ FromBytes

SpecCodec == InitCodec /\ [][NextCodec]_vars

(***************************************************************************)
(* Torrent._send_request and Torrent.announce (btorrent/torrent.py).  A     *)
(* tracker is a number; `out` tells what trt_meth does on each tracker      *)
(* during one call: "ok" (a response, named by the tracker that gave it),   *)
(* "none" (a falsy result), "error" (ConnectionError or OSError, caught) or *)
(* "ValueError" (any exception the except clause does not name; drawn for   *)
(* the tracker of the last tier only).                                      *)
(***************************************************************************)
TrackerOutcomes ==
    {out \in [1..(MaxTier + 1) -> {"ok", "none", "error", "ValueError"}] :
        /\ \A t \in 1..MaxTier : out[t] # "ValueError"
        /\ out[MaxTier + 1] # "none"}

\* _send_request that returns the result and leaves the tier as it was
torrent_send_request_unpromoted(announce_list, out, lvl, idx) ==
    LET order == [l \in 1..Len(announce_list) |->
                    [i \in 1..Len(announce_list[l]) |-> announce_list[l][i]]]
        reached(l, i) ==
            \A l2 \in 1..Len(order) : \A i2 \in 1..Len(order[l2]) :
                (l2 < l \/ (l2 = l /\ i2 < i)) => out[order[l2][i2]] \in {"none", "error"}
        hits == {<<l, i>> \in (1..Len(order)) \X (1..(MaxTier + 1)) :
                    i <= Len(order[l]) /\ reached(l, i)
                    /\ out[order[l][i]] \in {"ok", "ValueError"}}
        upto(h) == {<<l, i>> \in (1..Len(order)) \X (1..(MaxTier + 1)) :
                        i <= Len(order[l]) /\ (l < h[1] \/ (l = h[1] /\ i <= h[2]))}
        RECURSIVE listed(_)
        listed(ps) ==
            IF ps = {} THEN <<>>
            ELSE LET p == CHOOSE x \in ps :
                            \A y \in ps : x[1] < y[1] \/ (x[1] = y[1] /\ x[2] <= y[2])
                 IN  <<order[p[1]][p[2]]>> \o listed(ps \ {p})
    IN  IF hits = {}
        THEN [announce_list |-> announce_list, result |-> 0, exc |-> None,
              calls |-> listed(upto(<<Len(order), MaxTier + 1>>))]
        ELSE LET h == CHOOSE x \in hits : TRUE IN
             IF out[order[h[1]][h[2]]] = "ok"
             THEN [announce_list |-> announce_list, result |-> order[h[1]][h[2]],
                   exc |-> None, calls |-> listed(upto(h))]
             ELSE [announce_list |-> announce_list, result |-> 0, exc |-> "ValueError",
                   calls |-> listed(upto(h))]

\* _send_request that goes on to the trackers after the one that answered
torrent_send_request_all(announce_list, out, lvl, idx) ==
    LET RECURSIVE flat(_)
        flat(l) == IF l > Len(announce_list) THEN <<>>
                   ELSE announce_list[l] \o flat(l + 1)
        oks == {i \in DOMAIN flat(1) : out[flat(1)[i]] = "ok"}
    IN  [announce_list |-> announce_list,
         result |-> IF oks = {} THEN 0
                    ELSE flat(1)[CHOOSE i \in oks : \A j \in oks : i <= j],
         exc |-> None, calls |-> flat(1)]

\* lvl.insert(0, tracker) without the lvl.pop(idx) before it
promote_copied(tier, idx) == <<tier[idx]>> \o tier
\* lvl.pop(idx); lvl.insert(0, tracker), idx from 1
promote(tier, idx) ==
    <<tier[idx]>> \o SubSeq(tier, 1, idx - 1) \o SubSeq(tier, idx + 1, Len(tier))

\* Torrent._send_request from tier lvl, index idx on (both from 1): the
\* announce list afterwards, the result returned (0: None), the exception
\* that left the call and the trackers trt_meth was invoked on, in order
RECURSIVE torrent_send_request(_, _, _, _)
torrent_send_request(announce_list, out, lvl, idx) ==
    IF lvl > Len(announce_list)
    THEN [announce_list |-> announce_list, result |-> 0, exc |-> None,
          calls |-> <<>>]
    ELSE IF idx > Len(announce_list[lvl])
    THEN torrent_send_request(announce_list, out, lvl + 1, 1)
    ELSE LET tracker == announce_list[lvl][idx]
             tier == announce_list[lvl]
         IN  CASE out[tracker] = "ValueError" ->
                    [announce_list |-> announce_list, result |-> 0,
                     exc |-> "ValueError", calls |-> <<tracker>>]
               [] out[tracker] = "ok" ->
                    [announce_list |->
                        [announce_list EXCEPT ![lvl] = promote(tier, idx)],
                     result |-> tracker, exc |-> None, calls |-> <<tracker>>]
               [] OTHER ->
                    [torrent_send_request(announce_list, out, lvl, idx + 1)
                        EXCEPT !.calls = <<tracker>> \o @]

\* Torrent.announce: the response of tracker t carries the interval 60 * t
announce(t, out) ==
    LET r == torrent_send_request(t.announce_list, out, 1, 1) IN
    [torrent |-> [announce_list |-> r.announce_list,
                  interval |-> IF r.result # 0 THEN 60 * r.result ELSE t.interval],
     response |-> r.result, exc |-> r.exc, calls |-> r.calls]

\* random.shuffle of the first tier in Torrent.__init__
InitTorrent ==
    /\ PeerIdle
    /\ \E tier \in [1..MaxTier -> 1..MaxTier] :
        /\ \A i, j \in 1..MaxTier : tier[i] = tier[j] => i = j
        /\ torrent = [announce_list |-> <<tier, <<MaxTier + 1>> >>, interval |-> 0]
    /\ ann = NoAnnounce
    /\ udp = NoRequest
    /\ con = NoConnect
    /\ tr = NoSession
    /\ mgr = NoManager

Announce ==
    \E out \in TrackerOutcomes :
        LET r == announce(torrent, out) IN
        /\ torrent' = r.torrent
        /\ ann' = [op |-> "announce", out |-> out, response |-> r.response,
                   exc |-> r.exc, calls |-> r.calls,
                   before |-> torrent.announce_list]
        /\ UNCHANGED <<peer, sent, pwp, last, read_buffer, stream, origin, yielded,
                       feed, udp, con, tr, mgr>>

SpecTorrent == InitTorrent /\ [][Announce]_vars

(***************************************************************************)
(* The UDP tracker transport (btorrent/transport/tracker.py).  A datagram   *)
(* is [form, action, t_id, body]: form "short" has fewer than 8 bytes;      *)
(* form "binary" is what bencode.decode_from_buffer refuses: action and     *)
(* t_id are its two leading 32-bit integers and body tells whether the rest *)
(* is "full" (long enough for the response class) or "none" (empty); form   *)
(* "bencode" is what bencode.decode_from_buffer accepts: body names what it *)
(* decodes to ("interval", "failure", "files": a dictionary with that key;  *)
(* "nondict": no dictionary) and t_id is the integer its bytes 4..7 spell.  *)
(***************************************************************************)
\* range(9) of the retry loops
UDP_ATTEMPTS == 9

NoResponse == [class |-> "None", t_id |-> 0, connection_id |-> 0]

\* ACTION of the response and request classes (_TPReqType)
ClassACTION(class) ==
    CASE class = "ConnectResponse" -> 0
      [] class = "AnnounceResponse" -> 1
      [] class = "ScrapeResponse" -> 2
      [] class = "ErrorResponse" -> 3
      [] OTHER -> -1

\* sk.timeout from recv, an empty list from poll: no datagram came in time
RecvTimeout == [form |-> "timeout", action |-> 0, t_id |-> 0, body |-> "none"]

\* the datagrams that may answer a request sent with transaction id tid: the
\* t_id is tid or that of the request before it
Datagrams(tid) ==
    {[form |-> "short", action |-> 0, t_id |-> 0, body |-> "none"]}
    \cup {[form |-> "binary", action |-> a, t_id |-> t, body |-> b] :
            a \in {0, 1, 2, 3, 7}, t \in {tid, tid - 1}, b \in {"none", "full"}}
    \cup {[form |-> "bencode", action |-> 0, t_id |-> tid - 1, body |-> b] :
            b \in {"interval", "failure", "files", "nondict"}}

\* Response.build(resp, transaction_id): [resp, exc]; the response built
\* remembers the t_id of the datagram it was built from, and a
\* ConnectResponse carries the connection_id 77
build(d, transaction_id) ==
    LET made(class) ==
            [resp |-> [class |-> class, t_id |-> d.t_id,
                       connection_id |-> IF class = "ConnectResponse" THEN 77 ELSE 0],
             exc |-> None]
        none == [resp |-> NoResponse, exc |-> None]
    IN  CASE d.form = "bencode" ->
                CASE d.body = "nondict" -> [resp |-> NoResponse, exc |-> "AttributeError"]
                  [] d.body = "failure" -> made("ErrorResponse")
                  [] d.body = "files" -> made("ScrapeResponse")
                  [] OTHER -> made("AnnounceResponse")
          [] d.form = "short" -> none
          [] OTHER ->
                IF d.t_id # transaction_id THEN none
                ELSE CASE d.action = 0 ->
                            IF d.body = "full" THEN made("ConnectResponse") ELSE none
                       [] d.action = 1 ->
                            IF d.body = "full" THEN made("AnnounceResponse") ELSE none
                       [] d.action = 2 -> made("ScrapeResponse")
                       [] d.action = 3 ->
                            IF d.body = "full" THEN made("ErrorResponse") ELSE none
                       [] OTHER -> [resp |-> NoResponse, exc |-> "ValueError"]

\* the test both retry loops make on what build returned: go on to the next
\* attempt
Dropped(resp, action) ==
    resp.class = "None" \/ (ClassACTION(resp.class) # action /\ resp.class # "ErrorResponse")

\* one pass of the retry loop with a linear back-off
send_request_attempt_linear(u, ev) ==
    LET tid == u.transaction_id + 1
        u1 == [u EXCEPT !.timeout = 15 * (u.i + 1), !.sent = u.sent + 1,
                        !.transaction_id = tid]
        over == IF u.i + 1 < UDP_ATTEMPTS THEN [u1 EXCEPT !.i = u.i + 1]
                ELSE [u1 EXCEPT !.i = u.i + 1, !.status = "raised",
                                !.exc = "ConnectionError(EHOSTUNREACH)"]
        b == build(ev, tid)
    IN  IF ev = RecvTimeout THEN [over EXCEPT !.outcome = "timeout"]
        ELSE IF b.exc # None
        THEN [u1 EXCEPT !.status = "raised", !.exc = b.exc, !.outcome = "exception"]
        ELSE IF Dropped(b.resp, u.action) THEN [over EXCEPT !.outcome = "dropped"]
        ELSE [u1 EXCEPT !.status = "returned", !.resp = b.resp,
                        !.outcome = "accepted"]

\* one pass of the loop of UDPConnection._send_request, attempt u.i: the
\* timeout is set, the request is sent with a fresh transaction id (the
\* former one plus one stands for the random draw), and ev is what recv
\* does: RecvTimeout or a datagram.  After the last pass the loop ends and
\* the ConnectionError is raised.
send_request_attempt(u, ev) ==
    LET tid == u.transaction_id + 1
        u1 == [u EXCEPT !.timeout = 15 * 2 ^ u.i, !.sent = u.sent + 1,
                        !.transaction_id = tid]
        over == IF u.i + 1 < UDP_ATTEMPTS THEN [u1 EXCEPT !.i = u.i + 1]
                ELSE [u1 EXCEPT !.i = u.i + 1, !.status = "raised",
                                !.exc = "ConnectionError(EHOSTUNREACH)"]
        b == build(ev, tid)
    IN  IF ev = RecvTimeout THEN [over EXCEPT !.outcome = "timeout"]
        ELSE IF b.exc # None
        THEN [u1 EXCEPT !.status = "raised", !.exc = b.exc, !.outcome = "exception"]
        ELSE IF Dropped(b.resp, u.action) THEN [over EXCEPT !.outcome = "dropped"]
        ELSE [u1 EXCEPT !.status = "returned", !.resp = b.resp,
                        !.outcome = "accepted"]

\* a UDPConnection before its first request
InitTracker == PeerIdle /\ TrackerIdle

\* UDPConnection._send_request is entered with an announce or scrape request
UdpSendRequest ==
    /\ udp.status # "running"
    /\ \E action \in {1, 2} :
        udp' = [NoRequest EXCEPT !.status = "running", !.action = action]
    /\ UNCHANGED <<peer, sent, pwp, last, read_buffer, stream, origin, yielded,
                   feed, torrent, ann, con, tr, mgr>>

UdpAttempt ==
    /\ udp.status = "running"
    /\ \E ev \in {RecvTimeout} \cup Datagrams(udp.transaction_id + 1) :
        udp' = send_request_attempt(udp, ev)
    /\ UNCHANGED <<peer, sent, pwp, last, read_buffer, stream, origin, yielded,
                   feed, torrent, ann, con, tr, mgr>>

NextUdp ==
    \/ UdpSendRequest
    \/ UdpAttempt

SpecUdp == InitTracker /\ [][NextUdp]_vars

(***************************************************************************)
(* UDPConnection.connect and its fan-out threads UDPConnection._connect.    *)
(* con.thread[t] is the thread started for address t: [pc, i, sock, exc],   *)
(* pc "poll" inside the retry loop, "done" after a return, "raised" after   *)
(* an exception left the thread; con.pipe holds the threads whose           *)
(* (ident, sock, resp) is queued for main_con.recv(); con.signalled tells   *)
(* that main sent '.', which nobody reads: the pipe end the threads poll    *)
(* stays readable.  con.sock is the thread whose socket was adopted (0:     *)
(* None).                                                                   *)
(***************************************************************************)
\* poll reports the pipe end first: main has signalled
PipeReadable == [form |-> "signal", action |-> 0, t_id |-> 0, body |-> "none"]

\* one pass of the loop of _connect for a thread th, attempt th.i: the
\* connect request is sent with a fresh transaction id (th.i + 1 stands for
\* the random draw) and ev is the first event of poller.poll(t):
\* RecvTimeout (no event), PipeReadable, or a datagram on the socket.
\* [thread, send]: send tells that (ident, sock, resp) was put on the pipe.
connect_attempt(th, ev) ==
    LET b == build(ev, th.i + 1)
        next == IF th.i + 1 < UDP_ATTEMPTS THEN [th EXCEPT !.i = th.i + 1]
                ELSE [th EXCEPT !.i = th.i + 1, !.pc = "done"]
    IN  CASE ev = RecvTimeout -> [thread |-> next, send |-> FALSE]
          [] ev = PipeReadable ->
                [thread |-> [th EXCEPT !.pc = "done", !.sock = "closed"],
                 send |-> FALSE]
          [] OTHER ->
                IF b.exc # None
                THEN [thread |-> [th EXCEPT !.pc = "raised", !.exc = b.exc],
                      send |-> FALSE]
                ELSE IF Dropped(b.resp, 0) THEN [thread |-> next, send |-> FALSE]
                ELSE IF b.resp.class = "ErrorResponse"
                THEN [thread |-> [th EXCEPT !.pc = "raised", !.exc = "ErrorResponse"],
                      send |-> FALSE]
                ELSE [thread |-> [th EXCEPT !.pc = "done"], send |-> TRUE]

\* connect up to the start of the threads: getaddrinfo gives n addresses
ConnectStart ==
    /\ con.pc = "idle"
    /\ \E n \in 1..NumAddrs :
        con' = [con EXCEPT !.pc = "recv", !.ths = 1..n,
                           !.thread = [t \in 1..n |->
                                [pc |-> "poll", i |-> 0, sock |-> "open",
                                 exc |-> None]]]
    /\ UNCHANGED <<peer, sent, pwp, last, read_buffer, stream, origin, yielded,
                   feed, torrent, ann, udp, tr, mgr>>

\* a thread goes through one attempt
ThreadAttempt ==
    /\ \E t \in con.ths :
        /\ con.thread[t].pc = "poll"
        /\ \E ev \in (IF con.signalled THEN {PipeReadable} ELSE {RecvTimeout})
                      \cup Datagrams(con.thread[t].i + 1) :
            LET r == connect_attempt(con.thread[t], ev) IN
            con' = [con EXCEPT !.thread[t] = r.thread,
                               !.pipe = IF r.send THEN Append(@, t) ELSE @]
    /\ UNCHANGED <<peer, sent, pwp, last, read_buffer, stream, origin, yielded,
                   feed, torrent, ann, udp, tr, mgr>>

\* main_con.recv() returns a thread's (ident, sock, resp): resp is a
\* ConnectResponse, the socket and connection id are adopted, the loop is
\* left and '.' is sent
MainRecv ==
    /\ con.pc = "recv"
    /\ con.pipe # <<>>
    /\ con' = [con EXCEPT !.pc = "join", !.pipe = Tail(@), !.signalled = TRUE,
                          !.sock = Head(con.pipe), !.connection_id = 77]
    /\ UNCHANGED <<peer, sent, pwp, last, read_buffer, stream, origin, yielded,
                   feed, torrent, ann, udp, tr, mgr>>

\* every thread of ths is joined; then connect raises if no socket was
\* adopted and returns otherwise
MainJoin ==
    /\ con.pc = "join"
    /\ \A t \in con.ths : con.thread[t].pc \in {"done", "raised"}
    /\ con' = IF con.sock = 0
              THEN [con EXCEPT !.pc = "raised",
                               !.exc = "ConnectionError(EHOSTUNREACH)"]
              ELSE [con EXCEPT !.pc = "returned"]
    /\ UNCHANGED <<peer, sent, pwp, last, read_buffer, stream, origin, yielded,
                   feed, torrent, ann, udp, tr, mgr>>

NextConnect ==
    \/ ConnectStart
    \/ ThreadAttempt
    \/ MainRecv
    \/ MainJoin

SpecConnect == InitTracker /\ [][NextConnect]_vars

(***************************************************************************)
(* UDPHandler.udp_open: every request to a udp:// tracker goes through a    *)
(* new UDPConnection, its connect() and its send_request(req).  The host    *)
(* resolves to one address here.  The session's clock is kept as the age of *)
(* the connection id: a timed-out attempt lasts its timeout, a datagram     *)
(* arrives at once, and ages above 120 s are not told apart.                *)
(***************************************************************************)
\* the age a seconds later by dt; -1 (no connection id) stays
Later(a, dt) == IF a < 0 THEN a ELSE IF a + dt > 120 THEN 120 ELSE a + dt

\* time passes between two requests
Idle ==
    /\ tr.pc = "idle"
    /\ tr.age >= 0
    /\ tr.age < 120
    /\ tr' = [tr EXCEPT !.age = Later(@, 30)]
    /\ UNCHANGED <<peer, sent, pwp, last, read_buffer, stream, origin, yielded,
                   feed, torrent, ann, udp, con, mgr>>

\* udp_open up to the start of the fan-out thread of con.connect(): the
\* UDPConnection is new, whatever connection id an earlier one had obtained
UdpOpen ==
    /\ tr.pc = "idle"
    /\ \E action \in {1, 2} :
        udp' = [NoRequest EXCEPT !.action = action]
    /\ con' = [NoConnect EXCEPT !.pc = "recv", !.ths = {1},
                                !.thread = <<[pc |-> "poll", i |-> 0,
                                              sock |-> "open", exc |-> None]>>]
    /\ tr' = [NoSession EXCEPT !.pc = "connect",
                               !.reuse = (tr.age >= 0 /\ tr.age < 60)]
    /\ UNCHANGED <<peer, sent, pwp, last, read_buffer, stream, origin, yielded,
                   feed, torrent, ann, mgr>>

\* the fan-out thread goes through one attempt of _connect
OpenThread ==
    /\ tr.pc = "connect"
    /\ con.thread[1].pc = "poll"
    /\ \E ev \in (IF con.signalled THEN {PipeReadable} ELSE {RecvTimeout})
                  \cup Datagrams(con.thread[1].i + 1) :
        LET r == connect_attempt(con.thread[1], ev) IN
        con' = [con EXCEPT !.thread[1] = r.thread,
                           !.pipe = IF r.send THEN Append(@, 1) ELSE @]
    /\ tr' = [tr EXCEPT !.connect_sent = TRUE]
    /\ UNCHANGED <<peer, sent, pwp, last, read_buffer, stream, origin, yielded,
                   feed, torrent, ann, udp, mgr>>

\* connect() adopts the thread's socket and connection id
OpenRecv ==
    /\ tr.pc = "connect"
    /\ con.pc = "recv"
    /\ con.pipe # <<>>
    /\ con' = [con EXCEPT !.pc = "join", !.pipe = Tail(@), !.signalled = TRUE,
                          !.sock = Head(con.pipe), !.connection_id = 77]
    /\ tr' = [tr EXCEPT !.age = 0]
    /\ UNCHANGED <<peer, sent, pwp, last, read_buffer, stream, origin, yielded,
                   feed, torrent, ann, udp, mgr>>

\* connect() joins the thread and returns; send_request finds the socket
\* set, copies the connection id into the request and enters _send_request
OpenJoin ==
    /\ tr.pc = "connect"
    /\ con.pc = "join"
    /\ con.thread[1].pc \in {"done", "raised"}
    /\ con' = [con EXCEPT !.pc = "returned"]
    /\ udp' = [udp EXCEPT !.status = "running"]
    /\ tr' = [tr EXCEPT !.pc = "request"]
    /\ UNCHANGED <<peer, sent, pwp, last, read_buffer, stream, origin, yielded,
                   feed, torrent, ann, mgr>>

\* one pass of the loop of _send_request: the datagram leaves with the
\* connection id copied before the loop; udp_open ends with the request
OpenAttempt ==
    /\ tr.pc = "request"
    /\ udp.status = "running"
    /\ \E ev \in {RecvTimeout} \cup Datagrams(udp.transaction_id + 1) :
        /\ udp' = send_request_attempt(udp, ev)
        /\ tr' = [tr EXCEPT
                    !.sent_age = tr.age,
                    !.age = IF ev = RecvTimeout THEN Later(@, 15 * 2 ^ udp.i)
                            ELSE @,
                    !.pc = IF udp'.status = "running" THEN "request" ELSE "idle"]
    /\ UNCHANGED <<peer, sent, pwp, last, read_buffer, stream, origin, yielded,
                   feed, torrent, ann, con, mgr>>

NextOpen ==
    \/ Idle
    \/ UdpOpen
    \/ OpenThread
    \/ OpenRecv
    \/ OpenJoin
    \/ OpenAttempt

SpecOpen == InitTracker /\ [][NextOpen]_vars

(***************************************************************************)
(* class TorrentManager (btorrent/torrent_manager.py): the driver thread    *)
(* run() and the calls stop() and add_peer() other threads make.            *)
(***************************************************************************)
\* what Torrent._send_request hands to Torrent.announce: an AnnounceResponse
\* with its interval and peers, None when no tracker answered, or an
\* exception that is neither a ConnectionError nor an OSError
Responses ==
    [kind : {"response"}, interval : 0..MaxInterval, peers : SUBSET (1..MaxPeers)]
    \cup [kind : {"none", "raise"}, interval : {0}, peers : {{}}]

\* Torrent.announce, lines 90-97, on the outcome of the tracker call
torrent_announce(m, resp) ==
    CASE resp.kind = "raise" -> [m EXCEPT !.pc = "raised", !.exc = "ValueError"]
      [] resp.kind = "none" -> m
      [] OTHER -> [m EXCEPT !.since = 0, !.interval = resp.interval,
                            !.members = @ \cup resp.peers]

\* _announce with >= for its timer test
manager_announce_eager(m, event, force, resp) ==
    IF force \/ m.since >= m.interval
    THEN torrent_announce([m EXCEPT !.event = event,
                                    !.timer = IF force THEN "forced" ELSE "due",
                                    !.at = m.since, !.limit = m.interval,
                                    !.trailing = (m.event = "stopped")], resp)
    ELSE [m EXCEPT !.timer = "early", !.at = m.since, !.limit = m.interval]

\* TorrentManager._announce: time.monotonic() > last_announce_time + interval
\* is since > interval
manager_announce(m, event, force, resp) ==
    IF force \/ m.since > m.interval
    THEN torrent_announce([m EXCEPT !.event = event,
                                    !.timer = IF force THEN "forced" ELSE "due",
                                    !.at = m.since, !.limit = m.interval,
                                    !.trailing = (m.event = "stopped")], resp)
    ELSE [m EXCEPT !.timer = "early", !.at = m.since, !.limit = m.interval]

\* torrent.peers changed size under an iteration of the driver thread, by an
\* add_peer of peer id from another thread: the iteration raises
\* RuntimeError and nothing in run() catches it
Raced(m, id) ==
    [m EXCEPT !.members = @ \cup {id}, !.pc = "raised", !.exc = "RuntimeError"]

\* _start_download: the started announce, then connect and a forced
\* handshake on the peers of done, the peers pool.map took from
\* torrent.peers (all of them unless the iteration was cut short); e[id] is
\* what the network does to the socket calls on peer id
start_download(m, resp, e, done) ==
    LET a == manager_announce([m EXCEPT !.op = "start", !.timer = "none"],
                              "started", FALSE, resp)
        D == done \cap a.members
    IN  IF a.pc = "raised" THEN a
        ELSE [a EXCEPT
                !.pc = "loop",
                !.initiated = @ \cup D,
                !.peers = [id \in 1..MaxPeers |->
                    IF id \in D
                    THEN do_handshake(connect(a.peers[id], ConnOk(e[id])).peer,
                                      OurInfoHash, ClientPeerId, 0, TRUE,
                                      ConnOk(e[id]), SendOk(e[id])).peer
                    ELSE a.peers[id]]]

\* _handle_message on the messages get_message yielded, up to the first
\* exception
RECURSIVE handle_messages(_, _, _)
handle_messages(p, out, env) ==
    IF out = <<>> THEN Res(p, <<>>, 0, None, FALSE, None)
    ELSE LET h == handle_message(p, Head(out), TorrentBitfieldBytes,
                                 ConnOk(env), SendOk(env))
         IN  IF h.exc # None THEN h ELSE handle_messages(h.peer, Tail(out), env)

\* one iteration of the loop of run(): select returns after dt seconds with
\* peer id readable (0: with no peer), x are the bytes its socket holds;
\* then the periodic _announce
run_tick(m, dt, id, x, env, resp) ==
    LET t == IF m.since + dt > MaxInterval THEN MaxInterval + 1 ELSE m.since + dt
        m1 == [m EXCEPT !.op = "tick", !.timer = "none", !.since = t]
        g == get_message(m.peers[id], m.buffers[id], x)
        h == handle_messages(g.peer, g.out, env)
        m2 == [m1 EXCEPT !.peers[id] = h.peer, !.buffers[id] = g.buffer]
    IN  IF id = 0 THEN manager_announce(m1, "none", FALSE, resp)
        ELSE IF h.exc # None THEN [m2 EXCEPT !.pc = "raised", !.exc = h.exc]
        ELSE manager_announce(m2, "none", FALSE, resp)

\* _stop_download: every peer of torrent.peers is disconnected, then the
\* stopped announce is forced
stop_download(m, resp) ==
    LET m1 == [m EXCEPT !.op = "stop_download", !.timer = "none",
                        !.peers = [id \in 1..MaxPeers |->
                            IF id \in m.members THEN disconnect(m.peers[id])
                            ELSE m.peers[id]]]
        a == manager_announce(m1, "stopped", TRUE, resp)
    IN  IF a.pc = "raised" THEN a ELSE [a EXCEPT !.pc = "stopped"]

\* the bytes a remote peer sends for a Have of a piece the torrent has not
HaveFrame == to_bytes(Have(NumPieces))

\* the peers select is given: _get_actual_peers
actual_peers(m) ==
    {id \in m.members : fileno(m.peers[id]) > -1 /\ ~m.peers[id].destroyed}

DriverCall(m) ==
    /\ mgr' = m
    /\ UNCHANGED <<peer, sent, pwp, last, read_buffer, stream, origin, yielded,
                   feed, torrent, ann, udp, con, tr>>

\* run() through _start_download
StartDownload ==
    /\ mgr.pc = "new"
    /\ \E resp \in Responses, e \in [1..MaxPeers -> Env] :
        \/ DriverCall(start_download(mgr, resp, e, 1..MaxPeers))
        \/ \E done \in SUBSET (1..MaxPeers), id \in 1..MaxPeers :
            LET s == start_download(mgr, resp, e, done) IN
            /\ s.pc = "loop"
            /\ id \notin s.members
            /\ DriverCall(Raced(s, id))

\* one iteration of while self.is_active; a peer gets bytes while its read
\* buffer is empty
Tick ==
    /\ mgr.pc = "loop"
    /\ mgr.is_active
    /\ \/ \E resp \in Responses : DriverCall(run_tick(mgr, 1, 0, <<>>, "ok", resp))
       \/ \E id \in actual_peers(mgr), dt \in {0, 1}, env \in Env, resp \in Responses :
            /\ mgr.buffers[id].data = <<>>
            /\ DriverCall(run_tick(mgr, dt, id, HaveFrame, env, resp))
       \/ \E id \in 1..MaxPeers :
            /\ id \notin mgr.members
            /\ DriverCall(Raced([mgr EXCEPT !.op = "tick", !.timer = "none"], id))

\* the loop is left and _stop_download runs
StopDownload ==
    /\ mgr.pc = "loop"
    /\ ~mgr.is_active
    /\ \/ \E resp \in Responses : DriverCall(stop_download(mgr, resp))
       \/ \E done \in SUBSET mgr.members, id \in 1..MaxPeers :
            /\ id \notin mgr.members
            /\ DriverCall(Raced([mgr EXCEPT
                    !.op = "stop_download", !.timer = "none",
                    !.peers = [k \in 1..MaxPeers |->
                        IF k \in done THEN disconnect(mgr.peers[k])
                        ELSE mgr.peers[k]]], id))

\* stop(), from another thread
Stop ==
    /\ mgr.is_active
    /\ DriverCall([mgr EXCEPT !.is_active = FALSE])

\* add_peer(), from another thread, between two iterations over torrent.peers
AddPeer ==
    \E id \in 1..MaxPeers :
        /\ id \notin mgr.members
        /\ DriverCall([mgr EXCEPT !.members = @ \cup {id}])

RunNext ==
    \/ StartDownload
    \/ Tick
    \/ StopDownload

NextDriver ==
    \/ RunNext
    \/ Stop
    \/ AddPeer

\* the driver thread keeps being scheduled; nobody has to call stop or add_peer
SpecDriver == InitTracker /\ [][NextDriver]_vars /\ WF_vars(RunNext)

(***************************************************************************)
(* Bencode (btorrent/bencode/__init__.py).  A value is [t |-> "int", n],    *)
(* [t |-> "bytes", b], [t |-> "list", l] or [t |-> "dict", d], d the        *)
(* sequence of the entries [k, v] in insertion order; BNone is None.        *)
(***************************************************************************)
BInt(n) == [t |-> "int", n |-> n]
BBytes(b) == [t |-> "bytes", b |-> b]
BList(l) == [t |-> "list", l |-> l]
BDict(d) == [t |-> "dict", d |-> d]
BNone == [t |-> "None"]

\* str(n).encode() of an integer
RECURSIVE Str(_)
Str(n) ==
    IF n < 0 THEN <<45>> \o Str(-n)
    ELSE IF n < 10 THEN <<48 + n>>
    ELSE Str(n \div 10) \o <<48 + (n % 10)>>

\* a < b for two bytes objects
RECURSIVE BytesLess(_, _)
BytesLess(a, b) ==
    IF b = <<>> THEN FALSE
    ELSE IF a = <<>> THEN TRUE
    ELSE IF Head(a) # Head(b) THEN Head(a) < Head(b)
    ELSE BytesLess(Tail(a), Tail(b))

\* sorted(x) on the keys of a dictionary
RECURSIVE sorted(_)
sorted(keys) ==
    IF keys = {} THEN <<>>
    ELSE LET m == CHOOSE k \in keys : \A o \in keys \ {k} : BytesLess(k, o)
         IN  <<m>> \o sorted(keys \ {m})

\* x[key], and x.get(key): BNone when the key is missing
get(d, key) ==
    IF \E i \in DOMAIN d : d[i].k = key
    THEN d[CHOOSE i \in DOMAIN d : d[i].k = key].v
    ELSE BNone

\* the keys of a dictionary in insertion order
Keys(d) == [i \in DOMAIN d |-> d[i].k]

\* _encode_int and _encode_buffer
encode_int(x) == <<105>> \o Str(x) \o <<101>>
encode_buffer(x) == Str(Len(x)) \o <<58>> \o x

RECURSIVE encode(_), encode_items(_), encode_entries(_, _)
\* the loop of _encode_list
encode_items(l) ==
    IF l = <<>> THEN <<>> ELSE encode(Head(l)) \o encode_items(Tail(l))
\* the loop of _encode_dict over the keys in the order given
encode_entries(d, keys) ==
    IF keys = <<>> THEN <<>>
    ELSE encode_buffer(Head(keys)) \o encode(get(d, Head(keys)))
         \o encode_entries(d, Tail(keys))
\* _encode_dict that writes the keys in insertion order
encode_dict_unsorted(d) ==
    <<100>> \o encode_entries(d, Keys(d)) \o <<101>>
\* _encode_dict
encode_dict(d) ==
    <<100>> \o encode_entries(d, sorted({d[i].k : i \in DOMAIN d})) \o <<101>>
\* _encode (and encode, which returns the buffer written)
encode(item) ==
    CASE item.t = "int" -> encode_int(item.n)
      [] item.t = "bytes" -> encode_buffer(item.b)
      [] item.t = "dict" -> encode_dict(item.d)
      [] OTHER -> <<108>> \o encode_items(item.l) \o <<101>>

\* what a decoder returns: the value, the position of the stream, the
\* exception raised
Dec(val, pos, exc) == [val |-> val, pos |-> pos, exc |-> exc]

\* the position of the first byte `end` at or after pos, Len(data) + 1 when
\* there is none
RECURSIVE Find(_, _, _)
Find(data, pos, end) ==
    IF pos > Len(data) \/ data[pos] = end THEN pos ELSE Find(data, pos + 1, end)

\* int() of ASCII digits with an optional minus sign
RECURSIVE int(_)
int(b) ==
    IF b[1] = 45 THEN -int(Tail(b))
    ELSE IF Len(b) = 1 THEN b[1] - 48
    ELSE int(SubSeq(b, 1, Len(b) - 1)) * 10 + (b[Len(b)] - 48)
IsInt(b) ==
    LET digits == IF b # <<>> /\ b[1] = 45 THEN Tail(b) ELSE b
    IN  digits # <<>> /\ \A i \in DOMAIN digits : digits[i] \in 48..57

\* _decode_int; pos is the 1-based index of the next byte to read
decode_int(data, pos) ==
    LET e == Find(data, pos, 101)
        b == SubSeq(data, pos, e - 1)
    IN  IF e > Len(data) THEN Dec(BNone, e, "EOFError")
        ELSE IF ~IsInt(b) THEN Dec(BNone, e + 1, "ValueError")
        ELSE Dec(BInt(int(b)), e + 1, None)

\* _decode_buffer: the size is read again from the digit _decode consumed
decode_buffer(data, pos) ==
    LET c == Find(data, pos - 1, 58)
        sz == SubSeq(data, pos - 1, c - 1)
        first == CHOOSE i \in (pos - 1)..c :
                    i = c \/ i > Len(data) \/ data[i] \notin 48..57
        end == IF c + int(sz) > Len(data) THEN Len(data) ELSE c + int(sz)
    IN  IF first > Len(data) THEN Dec(BNone, first, "EOFError")
        ELSE IF first < c THEN Dec(BNone, first + 1, "ValueError")
        ELSE Dec(BBytes(SubSeq(data, c + 1, end)), end + 1, None)

\* bytes.lower()
lower(b) == [i \in DOMAIN b |-> IF b[i] \in 65..90 THEN b[i] + 32 ELSE b[i]]

\* res[key] = val on a dict
setitem_dict(d, key, val) ==
    IF \E i \in DOMAIN d : d[i].k = key
    THEN [i \in DOMAIN d |-> IF d[i].k = key THEN [k |-> key, v |-> val] ELSE d[i]]
    ELSE Append(d, [k |-> key, v |-> val])

RECURSIVE decode(_, _), decode_list(_, _, _), decode_dict(_, _, _)
\* the loop of _decode_list, res the list so far
decode_list(data, pos, res) ==
    LET v == decode(data, pos)
    IN  IF v.exc # None THEN v
        ELSE IF v.val = BNone THEN Dec(BList(res), v.pos, None)
        ELSE decode_list(data, v.pos, Append(res, v.val))
\* the loop of _decode_dict, res the dict so far
decode_dict(data, pos, res) ==
    LET k == decode(data, pos)
        v == decode(data, k.pos)
    IN  IF k.exc # None THEN k
        ELSE IF k.val = BNone THEN Dec(BDict(res), k.pos, None)
        ELSE IF k.val.t # "bytes" THEN Dec(BNone, k.pos, "TypeError")
        ELSE IF v.exc # None THEN v
        ELSE decode_dict(data, v.pos, setitem_dict(res, lower(k.val.b), v.val))
\* _decode: the byte read picks the decoder, KeyError becomes ValueError
decode(data, pos) ==
    LET t == IF pos > Len(data) THEN -1 ELSE data[pos]
    IN  CASE t = 105 -> decode_int(data, pos + 1)
          [] t = 108 -> decode_list(data, pos + 1, <<>>)
          [] t = 100 -> decode_dict(data, pos + 1, <<>>)
          [] t = 101 -> Dec(BNone, pos + 1, None)
          [] t \in 48..57 -> decode_buffer(data, pos + 1)
          [] OTHER -> Dec(BNone, pos + 1, "ValueError")

\* decode_from_buffer
decode_from_buffer(buf) == decode(buf, 1)

\* a == b on two decoded or built values: dicts compare without order
RECURSIVE Same(_, _)
Same(a, b) ==
    IF a.t # b.t THEN FALSE
    ELSE CASE a.t = "list" ->
                /\ Len(a.l) = Len(b.l)
                /\ \A i \in DOMAIN a.l : Same(a.l[i], b.l[i])
           [] a.t = "dict" ->
                /\ {a.d[i].k : i \in DOMAIN a.d} = {b.d[i].k : i \in DOMAIN b.d}
                /\ \A i \in DOMAIN a.d : Same(a.d[i].v, get(b.d, a.d[i].k))
           [] OTHER -> a = b

\* AnnounceResponse.from_bencode, its interval: [interval, exc]
from_bencode(data) ==
    LET m == get(data, <<109, 105, 110, 32, 105, 110, 116, 101, 114, 118, 97, 108>>)
    IN  IF m # BNone /\ m # BInt(0)
        THEN [interval |-> m, exc |-> None]
        ELSE IF get(data, <<105, 110, 116, 101, 114, 118, 97, 108>>) = BNone
        THEN [interval |-> BNone, exc |-> "KeyError"]
        ELSE [interval |-> get(data, <<105, 110, 116, 101, 114, 118, 97, 108>>), exc |-> None]

\* the values encoded: integers, byte strings, lists and dictionaries of up
\* to MaxItems items, a level of nesting, keys b'A', b'a', b'aB'; and the
\* dictionaries of an announce response with either or both interval keys
BencodeValues ==
    LET Atoms == {BInt(0), BInt(-12), BInt(305), BBytes(<<>>), BBytes(<<101, 58>>)}
        KeySet == {<<65>>, <<97>>, <<97, 66>>}
        Distinct(ks) == \A i, j \in DOMAIN ks : i # j => ks[i] # ks[j]
        Dicts(vals) ==
            UNION {{BDict([i \in 1..n |-> [k |-> ks[i], v |-> vs[i]]]) :
                        ks \in {q \in [1..n -> KeySet] : Distinct(q)},
                        vs \in [1..n -> vals]} : n \in 0..MaxItems}
        Lists(vals) == UNION {{BList(l) : l \in [1..n -> vals]} : n \in 0..MaxItems}
        Inner == {BList(<<BInt(1)>>),
                  BDict(<<[k |-> <<97>>, v |-> BInt(1)], [k |-> <<65>>, v |-> BInt(2)]>>)}
    IN  Atoms \cup Dicts(Atoms \cup Inner) \cup Lists(Atoms \cup Inner)
AnnounceDicts ==
    LET Opt == {BNone} \cup {BInt(n) : n \in 0..MaxInterval}
        entry(key, v) == IF v = BNone THEN <<>> ELSE <<[k |-> key, v |-> v]>>
    IN  {BDict(entry(<<105, 110, 116, 101, 114, 118, 97, 108>>, i) \o entry(<<109, 105, 110, 32, 105, 110, 116, 101, 114, 118, 97, 108>>, m)) : i \in Opt, m \in Opt}

\* origin holds the value, stream its encoding, yielded what was decoded
InitBencode ==
    /\ \E v \in BencodeValues \cup AnnounceDicts : origin = <<v>>
    /\ last = [op |-> "init", interval |-> BNone, exc |-> None]
    /\ stream = <<>>
    /\ yielded = <<>>
    /\ peer = NewPeer(NoBytes)
    /\ pwp = [peer_id |-> NoBytes, sock |-> None]
    /\ sent = {}
    /\ read_buffer = EmptyBuffer
    /\ feed = "none"
    /\ TrackerIdle

BencodeCall(op, s, y, r) ==
    /\ last' = [op |-> op, interval |-> r.interval, exc |-> r.exc]
    /\ stream' = s
    /\ yielded' = y
    /\ UNCHANGED <<peer, sent, pwp, read_buffer, origin, feed, torrent, ann,
                   udp, con, tr, mgr>>

\* encode(v).getvalue()
BEncode ==
    /\ last.op = "init"
    /\ BencodeCall("encode", encode(origin[1]), yielded,
                   [interval |-> BNone, exc |-> None])

\* decode_from_buffer on the bytes encode gave
BDecode ==
    /\ last.op = "encode"
    /\ LET r == decode_from_buffer(stream) IN
       BencodeCall("decode", stream, <<r.val>>, [interval |-> BNone, exc |-> r.exc])

\* Response.build on a bencoded announce response: from_bencode on the
\* decoded dictionary
FromBencode ==
    /\ last.op = "decode"
    /\ origin[1] \in AnnounceDicts
    /\ BencodeCall("from_bencode", stream, yielded, from_bencode(yielded[1].d))

NextBencode ==
    \/ BEncode
    \/ BDecode
    \/ FromBencode

SpecBencode == InitBencode /\ [][NextBencode]_vars

(***************************************************************************)
(* Torrent metadata (btorrent/metadata.py).  An info dictionary is         *)
(* [keys, pieces, piece_length, length, files]: keys the names of the keys *)
(* it holds, files the lengths of the entries of its files list.           *)
(***************************************************************************)
\* math.ceil(a / b) for a >= 0, b > 0
Ceil(a, b) == (a + b - 1) \div b

\* tuple(pieces[i:i+20] for i in range(0, len(pieces), 20))
hashes_of(pieces) ==
    [h \in 1..Ceil(Len(pieces), HASH_LEN) |->
        SubSeq(pieces, (h - 1) * HASH_LEN + 1,
               IF h * HASH_LEN > Len(pieces) THEN Len(pieces) ELSE h * HASH_LEN)]

RECURSIVE Sum(_)
Sum(l) == IF l = <<>> THEN 0 ELSE Head(l) + Sum(Tail(l))

NoInfo ==
    [exc |-> None, pieces |-> <<>>, piece_length |-> 0, total_size |-> 0,
     hashes |-> <<>>, pieces_amount |-> 0]

\* MetadataInfo.from_rawdata followed by MetadataInfo.__init__: int(None)
\* and len(None) raise TypeError
from_rawdata(info) ==
    LET total_size ==
            IF "length" \in info.keys THEN info.length
            ELSE IF "files" \in info.keys THEN Sum(info.files)
            ELSE 0
    IN  IF "piece length" \notin info.keys \/ "pieces" \notin info.keys
        THEN [NoInfo EXCEPT !.exc = "TypeError"]
        ELSE [exc |-> None,
              pieces |-> info.pieces,
              piece_length |-> info.piece_length,
              total_size |-> total_size,
              hashes |-> hashes_of(info.pieces),
              pieces_amount |-> Len(hashes_of(info.pieces))]

\* the info dictionaries parsed: pieces of every length up to one byte past
\* MaxHashes hashes, single-file and multiple-file mode, keys left out
InfoDicts ==
    LET Modes == {{"length"}, {"files"}, {}}
        Common == {{"pieces", "piece length"}, {"pieces"}, {"piece length"}}
    IN  {[keys |-> c \cup m,
          pieces |-> [i \in 1..n |-> i % 256],
          piece_length |-> pl,
          length |-> IF "length" \in m THEN len ELSE 0,
          files |-> IF "files" \in m THEN fs ELSE <<>>] :
            c \in Common, m \in Modes, n \in 0..(HASH_LEN * MaxHashes + 1),
            pl \in 1..MaxSize, len \in 0..MaxSize,
            fs \in UNION {[1..k -> 0..MaxSize] : k \in 0..2}}

InitMetadata ==
    /\ \E info \in InfoDicts : origin = <<info>>
    /\ last = [op |-> "init", info |-> NoInfo]
    /\ stream = <<>>
    /\ yielded = <<>>
    /\ peer = NewPeer(NoBytes)
    /\ pwp = [peer_id |-> NoBytes, sock |-> None]
    /\ sent = {}
    /\ read_buffer = EmptyBuffer
    /\ feed = "none"
    /\ TrackerIdle

\* MetadataInfo.from_rawdata(info, encoding)
FromRawdata ==
    /\ last.op = "init"
    /\ last' = [op |-> "from_rawdata", info |-> from_rawdata(origin[1])]
    /\ UNCHANGED <<peer, sent, pwp, read_buffer, stream, origin, yielded, feed,
                   torrent, ann, udp, con, tr, mgr>>

SpecMetadata == InitMetadata /\ [][FromRawdata]_vars

(***************************************************************************)
(* The peer set of a torrent (btorrent/torrent.py, btorrent/peer.py).  An  *)
(* address offered to Peer() is [form, addr]: the integer or the string    *)
(* form of address addr; a Peer object of the set is [ip, port, peer_id,   *)
(* sock].                                                                  *)
(***************************************************************************)
\* ipaddress.ip_address(ip).compressed: one text for both forms
compressed(ip) == ip.addr

\* Peer.__init__
Peer(ip, port, peer_id) ==
    [ip |-> compressed(ip), port |-> port, peer_id |-> peer_id, sock |-> None]

\* Peer.__hash__ on the peer id as well
peer_hash_with_id(p) == <<p.ip, p.port, p.peer_id>>
\* Peer.__hash__
peer_hash(p) == <<p.ip, p.port>>
\* Peer.__eq__
peer_eq(p, q) == peer_hash(p) = peer_hash(q)

\* set.add: an element equal to one of the set is not added
set_add(s, p) == IF \E q \in s : peer_eq(q, p) THEN s ELSE s \cup {p}

\* set.update over map(lambda x: Peer(*x), items): `*x` on a Peer object
\* raises TypeError, the elements added before stay
RECURSIVE set_update(_, _, _)
set_update(s, items, form) ==
    IF items = <<>> THEN [peers |-> s, exc |-> None]
    ELSE IF form = "peers" THEN [peers |-> s, exc |-> "TypeError"]
    ELSE set_update(set_add(s, Peer(Head(items).ip, Head(items).port, Head(items).peer_id)),
                    Tail(items), form)

\* the addresses and peer ids offered: every ip on port 6881, the first ip on
\* port 6882 as well, each with and without a peer id
Offers ==
    {o \in [ip : [form : {"int", "str"}, addr : 1..MaxPeers], port : {6881, 6882},
             peer_id : {NoBytes, Bytes20(1)}] : o.port = 6882 => o.ip.addr = 1}

\* whether one of the items names an address of the set that is connected and
\* known under another peer id
Known(s, items) ==
    \E i \in DOMAIN items : \E q \in s :
        /\ peer_eq(q, Peer(items[i].ip, items[i].port, items[i].peer_id))
        /\ q.peer_id # items[i].peer_id
        /\ q.sock # None

InitPeers ==
    /\ torrent = [peers |-> {}]
    /\ last = [op |-> "init", exc |-> None, again |-> FALSE]
    /\ peer = NewPeer(NoBytes)
    /\ pwp = [peer_id |-> NoBytes, sock |-> None]
    /\ sent = {}
    /\ read_buffer = EmptyBuffer
    /\ stream = <<>>
    /\ origin = <<>>
    /\ yielded = <<>>
    /\ feed = "none"
    /\ tr = NoSession
    /\ mgr = NoManager
    /\ ann = NoAnnounce
    /\ udp = NoRequest
    /\ con = NoConnect

PeersCall(op, r, again) ==
    /\ torrent' = [peers |-> r.peers]
    /\ last' = [op |-> op, exc |-> r.exc, again |-> again]
    /\ UNCHANGED <<peer, sent, pwp, read_buffer, stream, origin, yielded, feed,
                   ann, udp, con, tr, mgr>>

\* Torrent.add_peer(Peer(ip, port, peer_id))
TorrentAddPeer ==
    \E o \in Offers :
        PeersCall("add_peer",
                  [peers |-> set_add(torrent.peers, Peer(o.ip, o.port, o.peer_id)),
                   exc |-> None],
                  Known(torrent.peers, <<o>>))

\* Torrent.announce, line 97, on a response with up to two peers, their ips
\* integers, given as tuples or as Peer objects
AnnouncePeers ==
    \E form \in {"tuples", "peers"} :
    \E items \in UNION {[1..n -> {o \in Offers : o.ip.form = "int"}] : n \in 0..2} :
        PeersCall("announce", set_update(torrent.peers, items, form),
                  form = "tuples" /\ Known(torrent.peers, items))

\* Peer.connect on a peer of the set: the object gets a socket
ConnectMember ==
    \E p \in torrent.peers :
        /\ p.sock = None
        /\ PeersCall("connect",
                     [peers |-> (torrent.peers \ {p}) \cup {[p EXCEPT !.sock = "open"]},
                      exc |-> None],
                     FALSE)

NextPeers ==
    \/ TorrentAddPeer
    \/ AnnouncePeers
    \/ ConnectMember

SpecPeers == InitPeers /\ [][NextPeers]_vars

(***************************************************************************)
(* Properties.                                                              *)
(***************************************************************************)
\* the operation just performed wrote a message of this type to the socket
WroteType(o, type) == \E i \in DOMAIN o.wrote : o.wrote[i].type = type

\* the Ready state of the session
Ready(p) == p.handshaked /\ p.sock # None /\ ~p.destroyed

\* bit `index` of a peer's bit map (most significant bit of a byte first);
\* 0 outside of it
BitAt(bf, index) ==
    IF bf.kind = "BitArray"
    THEN IF index < Len(bf.bits) THEN bf.bits[index + 1] ELSE 0
    ELSE IF index \div 8 < Len(bf.bits)
         THEN (bf.bits[(index \div 8) + 1] \div (2 ^ (7 - (index % 8)))) % 2
         ELSE 0

HandledType(o, type) == o.op = "handle_message" /\ o.msg.type = type

\* C1 (as claimed): whatever Peer operation ran last, a message it wrote to
\* the socket while handshaked was false is a Handshake sent with force = true.
C1_SendGating ==
    \A i \in DOMAIN last.wrote :
        ~last.wrote[i].handshaked =>
            (last.wrote[i].type = "Handshake" /\ last.wrote[i].force)

\* C1 (amended): a message written while handshaked was false was sent with
\* force = true, and unless the caller used send_message itself it is the
\* Handshake of do_handshake: the do_* helpers and the dispatcher never force.
C1_SendGatingForced ==
    \A i \in DOMAIN last.wrote :
        ~last.wrote[i].handshaked =>
            /\ last.wrote[i].force
            /\ last.op # "send_message" =>
                (last.op = "do_handshake" /\ last.wrote[i].type = "Handshake")

\* C1 witness: do_handshake with force wrote a Handshake before the handshake
C1_Witness ==
    /\ last.op = "do_handshake"
    /\ last.force
    /\ last.wrote # <<>>
    /\ ~last.wrote[1].handshaked
    /\ ~peer.handshaked

\* C2 (as claimed, for PeerWireProtocol.handshake): a Handshake response with
\* our info-hash whose peer-id is unknown to us or the expected one is
\* accepted: no exception, the connection stays open.
C2_HandshakeAccepted ==
    (/\ last.op = "pwp_handshake"
     /\ last.ioerr = None
     /\ last.msg.type = "Handshake"
     /\ last.msg.info_hash = OurInfoHash
     /\ (pwp.peer_id = NoBytes \/ pwp.peer_id = last.msg.peer_id))
    => (last.exc = None /\ pwp.sock # None)

\* C2, the dispatcher's half: handling such a Handshake sets handshaked,
\* records peer_id and reserved and leaves the socket as it is.
C2_HandlerReady ==
    [][(/\ HandledType(last', "Handshake")
        /\ last'.msg.info_hash = OurInfoHash
        /\ (peer.peer_id = NoBytes \/ peer.peer_id = last'.msg.peer_id))
       => (/\ peer'.handshaked
           /\ peer'.peer_id = last'.msg.peer_id
           /\ peer'.reserved = last'.msg.ints[1]
           /\ peer'.sock = peer.sock)]_vars

\* C3 (as claimed): handling, on an open connection, a Handshake with another
\* info-hash than the torrent's raises HandshakeError and leaves the peer
\* destroyed, its socket closed and handshaked false.
C3_InfoHashMismatchRejected ==
    [][(/\ HandledType(last', "Handshake")
        /\ last'.msg.info_hash # OurInfoHash
        /\ peer.sock # None
        /\ ~peer.destroyed)
       => (/\ last'.exc = "HandshakeError"
           /\ peer'.destroyed
           /\ peer'.sock = None
           /\ ~peer'.handshaked)]_vars

\* C4 (as claimed): handling, on an open connection, a Handshake whose
\* non-empty peer-id differs from the known expected one closes the socket and
\* destroys the peer.
C4_PeerIdMismatchDropped ==
    [][(/\ HandledType(last', "Handshake")
        /\ peer.sock # None
        /\ peer.peer_id # NoBytes
        /\ last'.msg.peer_id # NoBytes
        /\ last'.msg.peer_id # peer.peer_id)
       => (peer'.sock = None /\ peer'.destroyed)]_vars

\* C5 (as claimed): handling Interested sets peer_interested; if am_choking
\* was true (session Ready, send succeeding) an UnChoke is written and
\* am_choking becomes false; if am_choking was false no UnChoke is written.
C5_InterestedUnchokesOnce ==
    [][HandledType(last', "Interested")
       => (/\ peer'.peer_interested
           /\ (peer.am_choking /\ Ready(peer) /\ last'.ioerr = None)
                => (WroteType(last', "UnChoke") /\ ~peer'.am_choking)
           /\ ~peer.am_choking => ~WroteType(last', "UnChoke"))]_vars

\* C6 (as claimed): a Bitfield handled after a Bitfield was accepted, or
\* right after another post-handshake message, leaves the stored bit map as
\* it was.
C6_BitfieldOnlyFirst ==
    [][(/\ HandledType(last', "Bitfield")
        /\ peer.handshaked
        /\ (peer.bitfielded
            \/ (last.op = "handle_message" /\ last.msg.type # "Handshake")))
       => peer'.bitfield = peer.bitfield]_vars

\* C7 (as claimed): handling a message never writes our Bitfield to a socket
\* it was already written to.
C7_OwnBitfieldOnce ==
    [][(/\ last'.op = "handle_message"
        /\ WroteType(last', "Bitfield")
        /\ peer.sock # None)
       => "Bitfield" \notin sent]_vars

\* C8 (as claimed): handling Have(index) in the Ready state raises nothing,
\* sets bit index of the peer's bit map and leaves the other bits.
C8_HaveSetsBit ==
    [][(HandledType(last', "Have") /\ Ready(peer))
       => (/\ last'.exc = None
           /\ \A i \in 0..(NumPieces - 1) :
                BitAt(peer'.bitfield, i) =
                    IF i = last'.msg.ints[1] THEN 1 ELSE BitAt(peer.bitfield, i))]_vars

\* C9 (as claimed): after an operation in which a socket send or recv failed
\* the peer is destroyed and has no socket.
C9_IoErrorDestroys ==
    last.ioerr \in {"send", "recv"} => (peer.destroyed /\ peer.sock = None)

\* C10 (as claimed): once the whole stream was delivered one byte at a time to
\* a handshaked peer, the yielded messages are the messages sent.
C10_BytewiseExact ==
    (stream = <<>> /\ feed = "bytewise" /\ peer.handshaked) => yielded = origin

\* C11 (as claimed): when, after the bytes just received, the read buffer
\* holds at least 4 bytes but fewer than 4 + length bytes of the frame at its
\* start, get_message yields nothing and leaves exactly those bytes in the
\* buffer.
C11_PartialFrameKept ==
    [][LET got == SubSeq(stream, 1, Len(stream) - Len(stream'))
           all == read_buffer.data \o got
       IN  (/\ last'.op = "get_message"
            /\ ~peer.destroyed
            /\ Len(all) >= 4
            /\ Len(all) < 4 + IntFromBytes(SubSeq(all, 1, 4)))
           => (yielded' = yielded /\ read_buffer'.data = all)]_vars

\* C12 (as claimed): once a stream that starts with a complete frame of
\* unknown id was received whole, the connection is still open, the peer is
\* not destroyed, nothing of the stream is left in the buffer and the frames
\* that followed the unknown one were all yielded.
C12_UnknownIdSkipped ==
    (stream = <<>> /\ last.op = "get_message" /\ last.ioerr = None)
    => (/\ peer.sock # None
        /\ ~peer.destroyed
        /\ read_buffer.data = <<>>
        /\ yielded = origin)

\* C13: from_bytes(m.to_bytes()) raises nothing and is a message of the class
\* of m with the length prefix and the payload fields of m.
C13_RoundTrip ==
    last.op = "from_bytes" => (last.exc = None /\ yielded = origin)

\* C13 witness: a Piece with a non-empty block and a Handshake went through
\* to_bytes and from_bytes
C13_Witness ==
    /\ last.op = "from_bytes"
    /\ yielded # <<>>
    /\ \/ (origin[1].type = "Piece" /\ Len(origin[1].data) = MaxData)
       \/ (origin[1].type = "Handshake" /\ origin[1].ints[1] = 2147483647)

\* the trackers tried before position idx of tier lvl all failed (a caught
\* error or a falsy result)
FailedBefore(announce_list, out, lvl, idx) ==
    \A l \in 1..Len(announce_list) : \A i \in 1..Len(announce_list[l]) :
        (l < lvl \/ (l = lvl /\ i < idx))
            => out[announce_list[l][i]] \in {"none", "error"}

\* C14: when the tracker at position idx of a tier is the first to return a
\* response, that response is returned, the tier afterwards is that tracker
\* followed by the others in their former order, and the other tiers are as
\* they were.
C14_TierPromotion ==
    [][\A lvl \in 1..Len(torrent.announce_list) :
        \A idx \in 1..Len(torrent.announce_list[lvl]) :
            LET tier == torrent.announce_list[lvl]
                tracker == tier[idx]
            IN  (/\ ann'.op = "announce"
                 /\ ann'.out[tracker] = "ok"
                 /\ FailedBefore(torrent.announce_list, ann'.out, lvl, idx))
                => (/\ ann'.response = tracker
                    /\ ann'.exc = None
                    /\ torrent'.announce_list[lvl] =
                         <<tracker>> \o SubSeq(tier, 1, idx - 1)
                                    \o SubSeq(tier, idx + 1, Len(tier))
                    /\ \A l \in 1..Len(torrent.announce_list) :
                         l # lvl => torrent'.announce_list[l]
                                      = torrent.announce_list[l])]_vars

\* C14 witness: the tracker that answered leads tier 1, the tracker behind it
\* failed with a caught error and the last of the tier was not the one
\* promoted
C14_Witness ==
    /\ ann.op = "announce"
    /\ ann.response = torrent.announce_list[1][1]
    /\ ann.out[torrent.announce_list[1][2]] = "error"
    /\ ann.out[torrent.announce_list[1][MaxTier]] = "ok"

\* C15 (as claimed): an announce in which every tracker of every tier failed
\* ends with an exception.
C15_AllFailRaises ==
    (/\ ann.op = "announce"
     /\ \A t \in DOMAIN ann.out : ann.out[t] \in {"none", "error"})
    => ann.exc # None

C17_TransactionIdMatched ==
    udp.status = "returned" => udp.resp.t_id = udp.transaction_id

\* every fan-out thread has ended and nothing is queued for main
ThreadsOver ==
    /\ con.pc # "idle"
    /\ con.pipe = <<>>
    /\ \A t \in con.ths : con.thread[t].pc \in {"done", "raised"}

\* C18 (as claimed, for the Connect exchange): when a thread received an
\* ERROR response carrying its transaction id, no address gave a valid
\* response and every thread has ended, connect has raised that error to its
\* caller.
C18_ConnectErrorRaised ==
    (/\ ThreadsOver
     /\ con.sock = 0
     /\ \E t \in con.ths : con.thread[t].exc = "ErrorResponse")
    => (con.pc = "raised" /\ con.exc = "ErrorResponse")

\* C19 (as claimed): when connect has returned, one thread's socket is
\* adopted and open and the socket of every other thread is closed.
C19_OthersClosed ==
    con.pc = "returned"
    => (/\ con.sock \in con.ths
        /\ con.thread[con.sock].sock = "open"
        /\ \A t \in con.ths \ {con.sock} : con.thread[t].sock = "closed")

\* C20 (as claimed): connect is never left waiting on its result pipe when
\* every thread has ended (by running out of attempts or on an ERROR
\* response) and nothing is queued.
C20_ConnectNotBlocked ==
    ~(/\ con.pc = "recv"
      /\ ThreadsOver
      /\ \A t \in con.ths : con.thread[t].exc \in {None, "ErrorResponse"})

\* C21 (as claimed): a request issued while a connection id younger than 60
\* seconds is known sends no Connect request.
C21_ConnectionIdReused == tr.reuse => ~tr.connect_sent

\* C22 (as claimed): no announce or scrape datagram leaves with a connection
\* id obtained more than 60 seconds before.
C22_ConnectionIdFresh == tr.sent_age <= 60

\* C23 (as claimed): the periodic _announce of a loop iteration issues its
\* announce exactly when now >= last_announce_time + interval.
C23_ReannounceFromInterval ==
    (mgr.op = "tick" /\ mgr.timer \in {"due", "early"})
    => (mgr.timer = "due" <=> mgr.at >= mgr.limit)

\* C23 (corrected): the periodic _announce of a loop iteration issues its
\* announce exactly when now > last_announce_time + interval, never earlier;
\* at now = last_announce_time + interval it does not announce yet.
C23_ReannounceAfterInterval ==
    (mgr.op = "tick" /\ mgr.timer \in {"due", "early"})
    => (mgr.timer = "due" <=> mgr.at > mgr.limit)

\* C23 witness: an iteration whose timer test ran at exactly
\* last_announce_time + interval of an earlier successful announce
C23_Witness ==
    /\ mgr.op = "tick"
    /\ mgr.timer = "early"
    /\ mgr.at = mgr.limit
    /\ mgr.limit > 0

\* C24 (as claimed): once stop() was called with the driver in its loop, the
\* driver gets to attempt the stopped announce, unless a tracker call or a
\* select tick did not return.
C24_StopHonoured ==
    (~mgr.is_active /\ mgr.pc = "loop")
    ~> (\/ mgr.event = "stopped"
        \/ mgr.exc = "ValueError"
        \/ (mgr.exc = "RuntimeError" /\ mgr.op = "tick"))

\* C25 (as claimed): when _stop_download has completed, no peer of
\* torrent.peers has a socket and no announce followed the stopped one.
C25_ShutdownClosesAll ==
    mgr.pc = "stopped"
    => (/\ \A id \in mgr.members : mgr.peers[id].sock = None
        /\ mgr.event = "stopped"
        /\ ~mgr.trailing)

\* C25 witness: shutdown completed with a peer that a send failure had
\* destroyed and a peer the stopped announce brought
C25_Witness ==
    /\ mgr.pc = "stopped"
    /\ \E id \in mgr.members : id \in mgr.initiated /\ mgr.peers[id].destroyed
    /\ \E id \in mgr.members : id \notin mgr.initiated

\* C26 (as claimed): a peer of torrent.peers eventually has its connection
\* and handshake initiated by the driver, unless the driver is stopped or
\* has ended.
C26_PeersInitiated ==
    \A id \in 1..MaxPeers :
        (id \in mgr.members)
        ~> (id \in mgr.initiated \/ ~mgr.is_active \/ mgr.pc = "raised")

\* C27 (as claimed): no message handed to _handle_message makes it raise.
C27_HandlerContained ==
    last.op = "handle_message" => last.exc = None

\* C28 (as claimed): a value decoded from its encoding raises nothing, equals
\* the value structurally and encodes to the same bytes again.
C28_BencodeRoundTrip ==
    last.op = "decode"
    => (/\ last.exc = None
        /\ Same(yielded[1], origin[1])
        /\ encode(yielded[1]) = stream)

\* every value that differs from v only in the insertion order of its
\* dictionaries, at any depth
RECURSIVE Reorderings(_)
Reorderings(v) ==
    CASE v.t = "list" ->
            {BList(l) : l \in {q \in [DOMAIN v.l -> UNION {Reorderings(v.l[i]) : i \in DOMAIN v.l}] :
                                  \A i \in DOMAIN v.l : q[i] \in Reorderings(v.l[i])}}
      [] v.t = "dict" ->
            LET n == Len(v.d)
                Orders == {p \in [1..n -> 1..n] : \A i, j \in 1..n : i # j => p[i] # p[j]}
                Vals == {q \in [1..n -> UNION {Reorderings(v.d[i].v) : i \in 1..n}] :
                            \A i \in 1..n : q[i] \in Reorderings(v.d[i].v)}
            IN  {BDict([i \in 1..n |-> [k |-> v.d[p[i]].k, v |-> q[p[i]]]]) :
                    p \in Orders, q \in Vals}
      [] OTHER -> {v}

\* every dictionary of v, at any depth, holds its keys in ascending order of
\* their bytes
RECURSIVE KeysAscending(_)
KeysAscending(v) ==
    CASE v.t = "list" -> \A i \in DOMAIN v.l : KeysAscending(v.l[i])
      [] v.t = "dict" ->
            /\ \A i \in 1..(Len(v.d) - 1) : BytesLess(v.d[i].k, v.d[i + 1].k)
            /\ \A i \in DOMAIN v.d : KeysAscending(v.d[i].v)
      [] OTHER -> TRUE

\* the bytes of v with every dictionary written in the order it holds
RECURSIVE InOrder(_)
InOrder(v) ==
    LET RECURSIVE items(_)
        items(l) == IF l = <<>> THEN <<>> ELSE InOrder(Head(l)) \o items(Tail(l))
        RECURSIVE entries(_)
        entries(d) ==
            IF d = <<>> THEN <<>>
            ELSE encode_buffer(Head(d).k) \o InOrder(Head(d).v) \o entries(Tail(d))
    IN  CASE v.t = "int" -> encode_int(v.n)
          [] v.t = "bytes" -> encode_buffer(v.b)
          [] v.t = "list" -> <<108>> \o items(v.l) \o <<101>>
          [] OTHER -> <<100>> \o entries(v.d) \o <<101>>

\* C29 (as claimed): the encoding of a value has the keys of every dictionary,
\* at any depth, in ascending order of their bytes, and is the same for
\* every insertion order of the same entries.
C29_CanonicalKeys ==
    last.op = "encode"
    => /\ \E v \in Reorderings(origin[1]) : KeysAscending(v) /\ stream = InOrder(v)
       /\ \A v \in Reorderings(origin[1]) : encode(v) = stream

\* C29 witness: a dictionary inserted in descending key order was encoded
C29_Witness ==
    /\ last.op = "encode"
    /\ origin[1].t = "dict"
    /\ Len(origin[1].d) = 2
    /\ BytesLess(origin[1].d[2].k, origin[1].d[1].k)

\* C30 (as claimed): the interval of a parsed announce response is the value
\* of the interval key when there is one, min interval serving only when
\* interval is absent, and it is not below min interval.
C30_IntervalFromKey ==
    (last.op = "from_bencode" /\ last.exc = None)
    => LET i == get(origin[1].d, <<105, 110, 116, 101, 114, 118, 97, 108>>)
           m == get(origin[1].d, <<109, 105, 110, 32, 105, 110, 116, 101, 114, 118, 97, 108>>)
       IN  /\ i # BNone => last.interval = i
           /\ i = BNone => last.interval = m
           /\ m # BNone => last.interval.n >= m.n

\* C31 (as claimed): a MetadataInfo built from an info dictionary has a pieces
\* string of whole 20-byte hashes, 20 * pieces_amount = len(pieces) and
\* pieces_amount = ceil(total_size / piece_length); other dictionaries are
\* rejected.
C31_PieceTable ==
    (last.op = "from_rawdata" /\ last.info.exc = None)
    => /\ Len(last.info.pieces) % HASH_LEN = 0
       /\ HASH_LEN * last.info.pieces_amount = Len(last.info.pieces)
       /\ last.info.pieces_amount = Ceil(last.info.total_size, last.info.piece_length)

\* C32 (as claimed): the peer set holds at most one Peer per (ip, port),
\* whatever the peer ids, and an add_peer or an announce response leaves
\* every Peer object of the set as it was.
C32_PeerIdentity ==
    /\ [](\A p, q \in torrent.peers : (p.ip = q.ip /\ p.port = q.port) => p = q)
    /\ [][last'.op \in {"add_peer", "announce"} => torrent.peers \subseteq torrent'.peers]_vars

\* C32 witness: an address of the set, connected and known under another peer
\* id, was offered again
C32_Witness ==
    /\ last.op \in {"add_peer", "announce"}
    /\ last.again

\* C33 (as claimed): a peer that is not handshaked and has received the whole
\* of a stream of messages other than a Handshake has been rejected (the
\* HandshakeError in get_message disconnects it), and none of the messages
\* changed peer_choking, peer_interested, bitfielded or its bitfield.
C33_PreHandshakeStrict ==
    (last.op = "get_message" /\ ~peer.handshaked /\ stream = <<>>)
    => /\ peer.sock = None
       /\ yielded = <<>>
       /\ peer.peer_choking = NewPeer(NoBytes).peer_choking
       /\ peer.peer_interested = NewPeer(NoBytes).peer_interested
       /\ peer.bitfielded = NewPeer(NoBytes).bitfielded
       /\ peer.bitfield = NewPeer(NoBytes).bitfield

\* C34 (as claimed): while a request is under way, a datagram that carries
\* the transaction id of the request sent and an action that is neither the
\* request's nor ERROR (7 stands for the values outside 0..3) is a missed
\* reply: the pass of the retry loop that receives it raises nothing because
\* of it and ends with the retry counter advanced by one.
C34_ForeignActionMissed ==
    udp.status = "running"
    => \A d \in Datagrams(udp.transaction_id + 1) :
          (/\ d.form = "binary"
           /\ d.t_id = udp.transaction_id + 1
           /\ d.action \notin {udp.action, ClassACTION("ErrorResponse")})
          => LET r == send_request_attempt(udp, d)
             IN  /\ r.outcome = "dropped"
                 /\ r.i = udp.i + 1
                 /\ r.exc \in {None, "ConnectionError(EHOSTUNREACH)"}

\* C35 (as claimed): the trackers an announce call invokes are the leading
\* ones of the announce list it started from, tier after tier and in the
\* order of each tier, each once; all but the last invoked failed, and none
\* is invoked after one that succeeded.
C35_AnnounceOrder ==
    ann.op = "announce"
    => LET RECURSIVE flat(_)
           flat(l) == IF l > Len(ann.before) THEN <<>>
                      ELSE ann.before[l] \o flat(l + 1)
           c == ann.calls
       IN  /\ Len(c) <= Len(flat(1))
           /\ \A i \in DOMAIN c : c[i] = flat(1)[i]
           /\ \A i, j \in DOMAIN c : i # j => c[i] # c[j]
           /\ \A i \in DOMAIN c : i < Len(c) => ann.out[c[i]] \in {"none", "error"}
           /\ \A i \in DOMAIN c : ann.out[c[i]] = "ok" => i = Len(c)

\* C35 witness: an announce went through the whole first tier, which failed,
\* and got its answer from the second
C35_Witness ==
    /\ ann.op = "announce"
    /\ Len(ann.calls) = MaxTier + 1
    /\ ann.response = MaxTier + 1

\* C36 (as claimed): the first announce of a driver run that a tracker
\* answers carries the event started.  Stated for the first iteration of the
\* loop: when the started announce of _start_download was made and no
\* tracker answered it (since was not set back to 0) and the announce of the
\* next iteration is made and answered, that announce carries started.
C36_FirstAnnounceStarted ==
    [][(/\ mgr.op = "start" /\ mgr.timer = "due" /\ mgr.since # 0
        /\ mgr'.op = "tick" /\ mgr'.timer = "due" /\ mgr'.since = 0)
       => mgr'.event = "started"]_vars

\* C37 (as claimed): no interleaving of add_peer with the driver thread
\* changes the peer set under one of the driver's iterations over it, so the
\* driver never fails with "Set changed size during iteration".
C37_NoPeerSetRace ==
    mgr.exc # "RuntimeError"

\* C38 (as claimed): after any announces there are as many tiers as at load
\* time, each holds the trackers it was loaded with, once each (tier 1 the
\* trackers 1 .. MaxTier, tier 2 the tracker MaxTier + 1), and the trackers
\* other than the one an announce promoted stand in the order they had before
\* that announce.
C38_TierMembership ==
    LET now == torrent.announce_list
        loaded(l) == IF l = 1 THEN 1..MaxTier ELSE {MaxTier + 1}
        pos(tier, t) == CHOOSE i \in DOMAIN tier : tier[i] = t
    IN  /\ Len(now) = 2
        /\ \A l \in DOMAIN now :
            /\ {now[l][i] : i \in DOMAIN now[l]} = loaded(l)
            /\ Len(now[l]) = Cardinality(loaded(l))
        /\ ann.op = "announce"
           => \A l \in DOMAIN now : \A a, b \in loaded(l) \ {ann.response} :
                pos(ann.before[l], a) < pos(ann.before[l], b)
                <=> pos(now[l], a) < pos(now[l], b)

\* C38 witness: an announce promoted the last tracker of tier 1 over the
\* others
C38_Witness ==
    /\ ann.op = "announce"
    /\ ann.response = ann.before[1][MaxTier]
    /\ torrent.announce_list[1][1] = ann.response

\* bytes a socket may hold: a Have, a Choke, a KeepAlive and an Interested
ProbeFrames ==
    {HaveFrame, to_bytes(Choke), to_bytes(KeepAlive) \o to_bytes(Interested)}

\* C39 (as claimed): once a peer is destroyed, every operation leaves it
\* destroyed, writes nothing to its socket and opens no connection for it;
\* get_message on it yields nothing whatever its socket holds, and
\* _get_actual_peers leaves it out of what select is given.
C39_DestroyedAbsorbing ==
    /\ [][peer.destroyed
          => (/\ peer'.destroyed
              /\ last'.wrote = <<>>
              /\ (peer'.sock # None => peer.sock # None))]_vars
    /\ [](peer.destroyed
          => (/\ actual_peers([NoManager EXCEPT !.members = {1}, !.peers[1] = peer]) = {}
              /\ peer.sock # None
                 => \A x \in ProbeFrames :
                        get_message(peer, EmptyBuffer, x).out = <<>>))

\* C39 witness: a forced send_message was called on a peer destroyed before
\* the call, its socket still open
C39_Witness ==
    /\ peer.destroyed
    /\ peer.sock # None
    /\ last.op = "send_message"
    /\ last.force
    /\ last.ioerr = None

\* C40 (as claimed): when _handle_message has dropped a peer on a Handshake
\* whose peer id is not the one known for it, the handling of the next
\* message of that peer opens no connection to it and does not make it
\* handshaked with its socket closed.
C40_DroppedStaysDropped ==
    [][(/\ last.op = "handle_message"
        /\ last.msg.type = "Handshake"
        /\ peer.peer_id # NoBytes
        /\ last.msg.peer_id \notin {NoBytes, peer.peer_id}
        /\ peer.sock = None
        /\ ~peer.handshaked
        /\ last'.op = "handle_message")
       => (peer'.sock = None /\ ~peer'.handshaked)]_vars

====
